---- MODULE Spec2Model ----
(***************************************************************************)
(* Ceres++ (cerespp): batch driver get_activities, the per-file pipeline   *)
(* SpectrumProcessor.process_file, the order merge merge_echelle and the   *)
(* band integrator get_line_flux, the rest-frame correction               *)
(* correct_to_rest.                                                        *)
(*                                                                         *)
(* The specifications share the module:                                    *)
(*   Spec       get_activities driving process_file over a list of files   *)
(*   SpecMerge  merge_echelle on a multi-order spectrum                    *)
(*   SpecFlux   get_line_flux on a 1D spectrum                             *)
(*   SpecRest   correct_to_rest on a multi-order spectrum                  *)
(*   SpecIndex  the four index formulas on the band fluxes of a spectrum   *)
(*   SpecLog    SpectrumProcessor._log_step and StructuredLogger.log_step  *)
(*                                                                         *)
(* Numbers.  Wavelengths are integers.  In SpecMerge one unit is 0.04 A,   *)
(* so the tolerance 0.1 A of merge_echelle is 2.5 units (Tol2 = 5 halves)  *)
(* and no comparison against it is ever an equality.  Values that the code *)
(* computes as floats (linspace points, interpolated values, quotients)    *)
(* are exact rationals here, carried as integer numerators over a stated   *)
(* common denominator.                                                     *)
(***************************************************************************)
EXTENDS Integers, Sequences, FiniteSets, TLC

VARIABLES
    \* ---- get_activities / process_file ----
    mask,        \* SpectrumProcessor.mask
    files,       \* the files argument of get_activities
    save,        \* the save argument (save_1d of process_file)
    callback,    \* progress_callback: [set, raiseAt, msg]
    fi,          \* position of the for loop of get_activities (1-based)
    pc,          \* position inside get_activities / process_file
    hdr,         \* header_data and data shape of the file being processed
    cur,         \* local index values of the running process_file call
    hdulOpen,    \* files whose HDU list is open
    results,     \* the results list of get_activities
    excs,        \* per result: <<>> or <<message>> of the exception raised
    trace,       \* <<file index, step>> for every step that started
    calls,       \* messages delivered to the progress callback
    table,       \* rows stacked by _convert_to_legacy_format
    out,         \* the out argument (output_dir of process_file)
    disk,        \* names of the files merge_echelle has written
    \* ---- merge_echelle ----
    mdata,       \* data[0..3, order, pixel] as a sequence of orders
    mi,          \* loop variable i (0-based order index)
    next_start,  \* next_start
    waves, fluxes, errors, sn,   \* the four output arrays
    src,         \* <<order, pixel>> of every output element
    cross,       \* per pair: the crossover grid index and the two indices
    mpc,         \* "idle", "loop", "tail", "done", "raised"
    merr,        \* name of the exception merge_echelle raised
    \* ---- get_line_flux ----
    fin,         \* inputs: wavelength, flux, line, width, filt, error
    fx,          \* locals: width, ini, end, n
    fout,        \* result: [kind, num, den] and sigma
    fpc,         \* "idle", "response", "ini_end", "interp", "integrate", "done"
    \* ---- correct_to_rest ----
    heap,        \* the arrays in memory, by identity
    rmask,       \* the mask argument
    ro,          \* loop variable o (0-based order index)
    ccf_arr,     \* ccf_arr: [order, cc] per ccf call
    rv_arr,      \* rv_arr: None while unbound
    loads,       \* mask identifiers read from the mask store, per read
    med_ccf,     \* med_ccf, doubled
    rv,          \* the fitted radial velocity in km/s
    rout,        \* the returned (w, f): array identity and channel
    rpc,         \* "idle", "loop", "fit", "correct", "done", "raised"
    rerr,        \* name of the exception correct_to_rest raised
    \* ---- _calculate_s_index, _calculate_halpha, _calculate_hei, _nai ----
    ibands,      \* what get_line_flux returned per band: [F, s]
    iinst,       \* the inst argument of _calculate_s_index
    ix,          \* the (value, error) pairs returned so far, by index
    ipc,         \* "idle", "sindex", "halpha", "hei", "nai", "done"
    \* ---- SpectrumProcessor._log_step, StructuredLogger.log_step ----
    lcfg,        \* [callback, output_file]: what the two objects hold
    issued,      \* the _log_step calls made: [message, kwargs]
    received,    \* what the progress callback was handed: [message, kwargs]
    logged,      \* the messages handed to self.logger.info
    sissued,     \* the log_step calls made: [step, status, kwargs]
    jsonfile,    \* the lines of the JSON output file
    console,     \* the records handed to the console logger
    clock,       \* datetime.utcnow()
    \* ---- process_file calls on one SpectrumProcessor ----
    dicts,       \* the dict objects; dicts[1] is self.timing
    emitted,     \* the results returned so far, processing_time by identity
    runs,        \* number of process_file calls made
    \* ---- the template of ccf ----
    cwave,       \* the wave argument
    clines,      \* the rows of the mask file: lines1, lines2, flux_l
    wtem,        \* the template wavelength grid
    ftem,        \* the template values
    lines_new,   \* the rows kept by lines_idx
    ci,          \* loop variable i
    cpc          \* "idle", "grid", "mask", "lines", "correlate", "done"

batchVars == <<mask, files, save, callback, fi, pc, hdr, cur, hdulOpen,
               results, excs, trace, calls, table, out, disk>>
mergeVars == <<mdata, mi, next_start, waves, fluxes, errors, sn, src, cross,
               mpc, merr>>
fluxVars  == <<fin, fx, fout, fpc>>
restVars  == <<heap, rmask, ro, ccf_arr, rv_arr, loads, med_ccf, rv, rout,
               rpc, rerr>>
indexVars == <<ibands, iinst, ix, ipc>>
logVars   == <<lcfg, issued, received, logged, sissued, jsonfile, console,
               clock>>
timeVars  == <<dicts, emitted, runs>>
ccfVars   == <<cwave, clines, wtem, ftem, lines_new, ci, cpc>>
vars == <<batchVars, mergeVars, fluxVars, restVars, indexVars, logVars,
          timeVars, ccfVars>>

----------------------------------------------------------------------------
\* Bounds of the model
MaxFiles == 2

----------------------------------------------------------------------------
\* Generic helpers
Range(s) == {s[i] : i \in 1..Len(s)}
Abs(x) == IF x < 0 THEN -x ELSE x
Min(a, b) == IF a <= b THEN a ELSE b
Max(a, b) == IF a >= b THEN a ELSE b

\* Optional[T]: <<>> is None, <<v>> is the value v
None == <<>>
Some(v) == <<v>>

----------------------------------------------------------------------------
\* constants.py, models.py

\* the "unavailable" value of an index and of its error
Sentinel == -999

\* s_exceptions = ['fideos'], as character codes
s_exceptions == { <<102, 105, 100, 101, 111, 115>> }

\* INST header values met by the model: "FIDEOS", "fideos", "FEROS"
InstValues == { <<70, 73, 68, 69, 79, 83>>,
                <<102, 105, 100, 101, 111, 115>>,
                <<70, 69, 82, 79, 83>> }

\* str.lower() on character codes
Lower(s) == [i \in 1..Len(s) |->
               IF s[i] >= 65 /\ s[i] <= 90 THEN s[i] + 32 ELSE s[i]]

\* identifiers for which a mask file <masksdir>/<mask>.mas exists
MaskStore == {"G2", "K0", "K5", "M2"}

\* the step messages of process_file, in program order
StepMsgs == << "Loading FITS file", "Converting to rest frame",
               "Merging echelle orders", "Calculating S-index",
               "Calculating H-alpha", "Calculating HeI",
               "Calculating NaI D1/D2", "Processing completed" >>

\* ProcessingResult(filename=..., bjd=...) with every other field defaulted
ProcessingResult(filename, bjd) ==
    [ filename |-> filename, bjd |-> bjd,
      fwhm |-> None, fwhm_error |-> None,
      s_index |-> Sentinel, s_index_error |-> Sentinel,
      halpha |-> Sentinel, halpha_error |-> Sentinel,
      hei |-> Sentinel, hei_error |-> Sentinel,
      nai_d1d2 |-> Sentinel, nai_d1d2_error |-> Sentinel,
      spectrum_1d_path |-> None,
      errors |-> None ]

\* ErrorResult, but the index fields keep a computed-looking value
ErrorResult_keeps_values(filename, e) ==
    [ ProcessingResult(filename, 0) EXCEPT !.errors = Some(e), !.halpha = 0 ]

\* the except branch of process_file
ErrorResult(filename, e) ==
    [ ProcessingResult(filename, 0) EXCEPT !.errors = Some(e) ]

\* the result built on the success path of process_file
SuccessResult(filename, h, c) ==
    [ ProcessingResult(filename, h.bjd) EXCEPT
        !.fwhm = h.fwhm, !.fwhm_error = h.fwhm_error,
        !.s_index = c.s_index, !.s_index_error = c.s_index_error,
        !.halpha = c.halpha, !.halpha_error = c.halpha_error,
        !.hei = c.hei, !.hei_error = c.hei_error,
        !.nai_d1d2 = c.nai_d1d2, !.nai_d1d2_error = c.nai_d1d2_error,
        !.spectrum_1d_path = c.spectrum_1d_path ]

NoHdr == [bjd |-> 0, inst |-> <<>>, fwhm |-> None, fwhm_error |-> None,
          norders |-> 0, targ |-> "", date |-> <<>>, ut |-> <<>>]
NoCur == [ s_index |-> Sentinel, s_index_error |-> Sentinel,
           halpha |-> Sentinel, halpha_error |-> Sentinel,
           hei |-> Sentinel, hei_error |-> Sentinel,
           nai_d1d2 |-> Sentinel, nai_d1d2_error |-> Sentinel,
           spectrum_1d_path |-> None, sBands |-> 0 ]

\* Python truthiness of Optional[str]
Truthy(o) == o # None /\ o[1] # ""

----------------------------------------------------------------------------
\* processor.py: SpectrumProcessor

\* progress callbacks met by the model: none, one that records, and one
\* that raises (with message msg) when it is handed the message raiseAt
Callbacks ==
    { [set |-> FALSE, raiseAt |-> "", msg |-> ""],
      [set |-> TRUE,  raiseAt |-> "", msg |-> ""] }
    \cup { [set |-> TRUE, raiseAt |-> StepMsgs[k], msg |-> m] :
             k \in 1..Len(StepMsgs), m \in {"", "callback failed"} }

\* _log_step(message): does the call raise, and what the callback has seen
LogRaises(message) == callback.set /\ callback.raiseAt = message
Notified(message) == IF callback.set THEN Append(calls, message) ELSE calls

\* headers (and data shapes) _load_fits can return for the file at position f
\* HIERARCH TARGET NAME, HIERARCH SHUTTER START DATE ("2020-06-0f") and
\* HIERARCH SHUTTER START UT ("03:04:05") of the file at position f; the
\* date and the time are sequences of characters
TargetName(f) == "HD" \o ToString(f)
ShutterDate(f) ==
    <<"2", "0", "2", "0", "-", "0", "6", "-", "0", ToString(f)>>
ShutterUT == <<"0", "3", ":", "0", "4", ":", "0", "5">>

Headers(f) ==
    { [bjd |-> 2459000 + f, inst |-> i,
       fwhm |-> w, fwhm_error |-> w, norders |-> n,
       targ |-> TargetName(f), date |-> ShutterDate(f), ut |-> ShutterUT] :
         i \in InstValues, w \in {None, Some(7)}, n \in {1, 2} }

\* str.split(sep) on a sequence of characters: the list of the pieces
Split(str, sep) ==
    LET RECURSIVE pieces(_, _, _)
        pieces(i, piece, acc) ==
            IF i > Len(str) THEN Append(acc, piece)
            ELSE IF str[i] = sep THEN pieces(i + 1, "", Append(acc, piece))
            ELSE pieces(i + 1, piece \o str[i], acc)
    IN  pieces(1, "", <<>>)

\* for d in parts: o += d
RECURSIVE AddParts(_, _)
AddParts(o, parts) ==
    IF parts = <<>> THEN o ELSE AddParts(o \o Head(parts), Tail(parts))

\* f"{bjd}" of the float BJD_OUT, which is whole in the model
FormatFloat(b) == ToString(b) \o ".0"

\* the name under which the save branch of merge_echelle writes the file
merge_echelle_out(o, h) ==
    LET named == IF o = ""
                   THEN h.targ
                   ELSE AddParts(
                          AddParts(o \o h.targ \o "_", Split(h.date, "-"))
                            \o "_UT",
                          Split(h.ut, ":"))
    IN  named \o "_1d_rest_frame.fits"

\* spectrum_1d_path as process_file builds it
spectrum_1d_path(output_dir, h, save_1d) ==
    IF save_1d
      THEN Some(output_dir \o "/" \o h.targ \o "_" \o FormatFloat(h.bjd)
                  \o ".fits")
      ELSE None

\* the abstract value of an index computed for the file at position f
IndexOf(f) == f

\* correct_to_rest, but a spectrum of one order is returned as it is
correct_to_rest_accepts_one_order(norders, m, fit_ok) ==
    IF norders - 1 < 1
      THEN [raised |-> FALSE, msg |-> ""]
    ELSE IF m \notin MaskStore
      THEN [raised |-> TRUE, msg |-> "mask file not found"]
    ELSE IF ~fit_ok
      THEN [raised |-> TRUE, msg |-> "Optimal parameters not found"]
    ELSE [raised |-> FALSE, msg |-> ""]

\* correct_to_rest(data, mask): one ccf per order N-1..1, then ccf_fit
correct_to_rest(norders, m, fit_ok) ==
    IF norders - 1 < 1
      THEN [raised |-> TRUE,
            msg |-> "local variable 'rv_arr' referenced before assignment"]
    ELSE IF m \notin MaskStore
      THEN [raised |-> TRUE, msg |-> "mask file not found"]
    ELSE IF ~fit_ok
      THEN [raised |-> TRUE, msg |-> "Optimal parameters not found"]
    ELSE [raised |-> FALSE, msg |-> ""]

\* calculate_s_index without the s_exceptions test
calculate_s_index_unguarded(inst, bands_ok, v) ==
    IF ~bands_ok
      THEN [raised |-> TRUE, val |-> 0, err |-> 0, bands |-> 1]
      ELSE [raised |-> FALSE, val |-> v, err |-> v, bands |-> 4]

\* _calculate_s_index(waves, fluxes, errors, inst); bands_ok tells whether
\* the get_line_flux calls return, v is the value they lead to
calculate_s_index(inst, bands_ok, v) ==
    IF inst \in s_exceptions
      THEN [raised |-> FALSE, val |-> Sentinel, err |-> Sentinel, bands |-> 0]
    ELSE IF ~bands_ok
      THEN [raised |-> TRUE, val |-> 0, err |-> 0, bands |-> 1]
    ELSE [raised |-> FALSE, val |-> v, err |-> v, bands |-> 4]

\* _calculate_halpha, _calculate_hei, _calculate_nai
calculate_index(bands_ok, v) ==
    IF ~bands_ok
      THEN [raised |-> TRUE, val |-> 0, err |-> 0]
      ELSE [raised |-> FALSE, val |-> v, err |-> v]

BandError == "A value in x_new is below the interpolation range."

\* Except, but a failed file ends the loop of get_activities
Except_ends_batch(e) ==
    /\ results' = Append(results, ErrorResult(files[fi], e))
    /\ excs' = Append(excs, Some(e))
    /\ fi' = Len(files) + 1
    /\ pc' = "loop"
    /\ hdr' = NoHdr
    /\ cur' = NoCur

\* the except branch of process_file, then results.append in get_activities
Except(e) ==
    /\ results' = Append(results, ErrorResult(files[fi], e))
    /\ excs' = Append(excs, Some(e))
    /\ fi' = fi + 1
    /\ pc' = "loop"
    /\ hdr' = NoHdr
    /\ cur' = NoCur

\* a step of process_file that completed and hands over to the next one
Goto(next) ==
    /\ pc' = next
    /\ UNCHANGED <<results, excs, fi>>

Frame == /\ UNCHANGED <<mask, files, save, callback, table, out>>
         /\ UNCHANGED <<mergeVars, fluxVars, restVars, indexVars, logVars,
                    timeVars, ccfVars>>

----------------------------------------------------------------------------
\* cerespp.py: get_activities, and the steps of process_file it runs

\* for fname in files: processor.process_file(fname, out, save_1d=save)
NextFile ==
    /\ pc = "loop" /\ fi <= Len(files)
    /\ pc' = "load"
    /\ hdr' = NoHdr /\ cur' = NoCur
    /\ UNCHANGED <<fi, hdulOpen, results, excs, trace, calls>>
    /\ UNCHANGED disk
    /\ Frame

\* Step 1: _log_step, _load_fits
LoadFits ==
    /\ pc = "load"
    /\ trace' = Append(trace, <<fi, "load">>)
    /\ calls' = Notified(StepMsgs[1])
    /\ IF LogRaises(StepMsgs[1])
         THEN Except(callback.msg) /\ UNCHANGED hdulOpen
         ELSE \/ \* fits.open raises
                 /\ Except("No such file or directory")
                 /\ UNCHANGED hdulOpen
              \/ \* header['DISP'] / header['SNR'] with SNR = 0
                 /\ Except("float division by zero")
                 /\ hdulOpen' = hdulOpen \cup {fi}
              \/ \E h \in Headers(fi) :
                   /\ hdr' = h
                   /\ hdulOpen' = hdulOpen \cup {fi}
                   /\ cur' = cur
                   /\ Goto("rest")
    /\ UNCHANGED disk
    /\ Frame

\* Step 2: _log_step, _rest_frame_conversion
RestFrame ==
    /\ pc = "rest"
    /\ trace' = Append(trace, <<fi, "rest">>)
    /\ calls' = Notified(StepMsgs[2])
    /\ UNCHANGED hdulOpen
    /\ IF LogRaises(StepMsgs[2])
         THEN Except(callback.msg)
         ELSE \E fit_ok \in BOOLEAN :
                LET r == correct_to_rest(hdr.norders, mask, fit_ok)
                IN  IF r.raised
                      THEN Except(r.msg)
                      ELSE Goto("merge") /\ UNCHANGED <<hdr, cur>>
    /\ UNCHANGED disk
    /\ Frame

\* Step 3: _log_step, _merge_orders, spectrum_1d_path, hdul.close()
MergeOrders ==
    /\ pc = "merge"
    /\ trace' = Append(trace, <<fi, "merge">>)
    /\ calls' = Notified(StepMsgs[3])
    /\ IF LogRaises(StepMsgs[3])
         THEN Except(callback.msg) /\ UNCHANGED <<hdulOpen, disk>>
         ELSE \/ \* merge_echelle raises
                 /\ Except("index 0 is out of bounds for axis 0 with size 0")
                 /\ UNCHANGED <<hdulOpen, disk>>
              \/ /\ disk' = IF save
                              THEN disk \cup {merge_echelle_out(out, hdr)}
                              ELSE disk
                 /\ cur' = [cur EXCEPT !.spectrum_1d_path =
                              spectrum_1d_path(out, hdr, save)]
                 /\ hdulOpen' = hdulOpen \ {fi}
                 /\ Goto("sindex") /\ UNCHANGED hdr
    /\ Frame

\* Step 4: inst = header_data['instrument'].lower(), _calculate_s_index
CalcSIndex ==
    /\ pc = "sindex"
    /\ trace' = Append(trace, <<fi, "sindex">>)
    /\ calls' = Notified(StepMsgs[4])
    /\ UNCHANGED hdulOpen
    /\ IF LogRaises(StepMsgs[4])
         THEN Except(callback.msg)
         ELSE \E bands_ok \in BOOLEAN :
                LET inst == Lower(hdr.inst)
                    r == calculate_s_index(inst, bands_ok, IndexOf(fi))
                IN  IF r.raised
                      THEN Except(BandError)
                      ELSE /\ cur' = [cur EXCEPT !.s_index = r.val,
                                                 !.s_index_error = r.err,
                                                 !.sBands = r.bands]
                           /\ Goto("halpha") /\ UNCHANGED hdr
    /\ UNCHANGED disk
    /\ Frame

\* Step 5: _calculate_halpha
CalcHalpha ==
    /\ pc = "halpha"
    /\ trace' = Append(trace, <<fi, "halpha">>)
    /\ calls' = Notified(StepMsgs[5])
    /\ UNCHANGED hdulOpen
    /\ IF LogRaises(StepMsgs[5])
         THEN Except(callback.msg)
         ELSE \E bands_ok \in BOOLEAN :
                LET r == calculate_index(bands_ok, IndexOf(fi))
                IN  IF r.raised
                      THEN Except(BandError)
                      ELSE /\ cur' = [cur EXCEPT !.halpha = r.val,
                                                 !.halpha_error = r.err]
                           /\ Goto("hei") /\ UNCHANGED hdr
    /\ UNCHANGED disk
    /\ Frame

\* Step 6: _calculate_hei
CalcHeI ==
    /\ pc = "hei"
    /\ trace' = Append(trace, <<fi, "hei">>)
    /\ calls' = Notified(StepMsgs[6])
    /\ UNCHANGED hdulOpen
    /\ IF LogRaises(StepMsgs[6])
         THEN Except(callback.msg)
         ELSE \E bands_ok \in BOOLEAN :
                LET r == calculate_index(bands_ok, IndexOf(fi))
                IN  IF r.raised
                      THEN Except(BandError)
                      ELSE /\ cur' = [cur EXCEPT !.hei = r.val,
                                                 !.hei_error = r.err]
                           /\ Goto("nai") /\ UNCHANGED hdr
    /\ UNCHANGED disk
    /\ Frame

\* Step 7: _calculate_nai
CalcNaI ==
    /\ pc = "nai"
    /\ trace' = Append(trace, <<fi, "nai">>)
    /\ calls' = Notified(StepMsgs[7])
    /\ UNCHANGED hdulOpen
    /\ IF LogRaises(StepMsgs[7])
         THEN Except(callback.msg)
         ELSE \E bands_ok \in BOOLEAN :
                LET r == calculate_index(bands_ok, IndexOf(fi))
                IN  IF r.raised
                      THEN Except(BandError)
                      ELSE /\ cur' = [cur EXCEPT !.nai_d1d2 = r.val,
                                                 !.nai_d1d2_error = r.err]
                           /\ Goto("complete") /\ UNCHANGED hdr
    /\ UNCHANGED disk
    /\ Frame

\* _log_step("Processing completed"), build and return the result, append
Complete ==
    /\ pc = "complete"
    /\ trace' = Append(trace, <<fi, "complete">>)
    /\ calls' = Notified(StepMsgs[8])
    /\ UNCHANGED hdulOpen
    /\ IF LogRaises(StepMsgs[8])
         THEN Except(callback.msg)
         ELSE /\ results' = Append(results, SuccessResult(files[fi], hdr, cur))
              /\ excs' = Append(excs, None)
              /\ fi' = fi + 1
              /\ pc' = "loop"
              /\ hdr' = NoHdr /\ cur' = NoCur
    /\ UNCHANGED disk
    /\ Frame

\* _convert_to_legacy_format(results, out): failed files are skipped, the
\* columns are stacked; stacking raises when the FWHM columns are shorter
convert_to_legacy_format(rs) ==
    LET rows == SelectSeq(rs, LAMBDA r : ~Truthy(r.errors))
        fwhm == SelectSeq(rows, LAMBDA r : r.fwhm # None)
        has_fwhm == Len(fwhm) > 0
    IN  IF has_fwhm /\ Len(fwhm) # Len(rows)
          THEN [raised |-> TRUE, rows |-> <<>>, has_fwhm |-> has_fwhm]
          ELSE [raised |-> FALSE, rows |-> rows, has_fwhm |-> has_fwhm]

Convert ==
    /\ pc = "loop" /\ fi > Len(files)
    /\ table' = convert_to_legacy_format(results)
    /\ pc' = "returned"
    /\ UNCHANGED <<mask, files, save, callback, fi, hdr, cur, hdulOpen,
                   results, excs, trace, calls, out, disk>>
    /\ UNCHANGED <<mergeVars, fluxVars, restVars, indexVars, logVars,
                    timeVars, ccfVars>>

FileNames == <<"a.fits", "b.fits", "c.fits", "d.fits">>

MergeIdle ==
    /\ mdata = <<>> /\ mi = 0 /\ next_start = 0
    /\ waves = <<>> /\ fluxes = <<>> /\ errors = <<>> /\ sn = <<>>
    /\ src = <<>> /\ cross = <<>> /\ mpc = "idle" /\ merr = ""

FluxIdle ==
    /\ fin = <<>> /\ fx = <<>> /\ fout = <<>> /\ fpc = "idle"

RestIdle ==
    /\ heap = <<>> /\ rmask = "" /\ ro = 0 /\ ccf_arr = <<>>
    /\ rv_arr = None /\ loads = <<>> /\ med_ccf = <<>> /\ rv = 0
    /\ rout = <<>> /\ rpc = "idle" /\ rerr = ""

IndexIdle ==
    /\ ibands = <<>> /\ iinst = <<>> /\ ix = <<>> /\ ipc = "idle"

LogIdle ==
    /\ lcfg = <<>> /\ issued = <<>> /\ received = <<>> /\ logged = <<>>
    /\ sissued = <<>> /\ jsonfile = <<>> /\ console = <<>> /\ clock = 0

TimeIdle ==
    /\ dicts = <<>> /\ emitted = <<>> /\ runs = 0

CcfIdle ==
    /\ cwave = <<>> /\ clines = <<>> /\ wtem = <<>> /\ ftem = <<>>
    /\ lines_new = <<>> /\ ci = 0 /\ cpc = "idle"

BatchIdle ==
    /\ mask = "G2" /\ files = <<>> /\ save = FALSE
    /\ callback = [set |-> FALSE, raiseAt |-> "", msg |-> ""]
    /\ fi = 1 /\ pc = "idle" /\ hdr = NoHdr /\ cur = NoCur
    /\ hdulOpen = {} /\ results = <<>> /\ excs = <<>> /\ trace = <<>>
    /\ calls = <<>> /\ table = <<>> /\ out = "" /\ disk = {}

\* the out arguments met by the model
OutDirs == {"", "out/"}

\* get_activities(files, out, mask, save, logger, progress_callback) after
\* SpectrumProcessor(...) was constructed and results = []
Init ==
    /\ mask \in {"G2", "XX"}
    /\ \E n \in 1..MaxFiles : files = SubSeq(FileNames, 1, n)
    /\ save \in BOOLEAN
    /\ callback \in Callbacks
    /\ fi = 1 /\ pc = "loop" /\ hdr = NoHdr /\ cur = NoCur
    /\ hdulOpen = {} /\ results = <<>> /\ excs = <<>> /\ trace = <<>>
    /\ calls = <<>> /\ table = <<>>
    /\ out \in OutDirs /\ disk = {}
    /\ MergeIdle /\ FluxIdle /\ RestIdle /\ IndexIdle /\ LogIdle
    /\ TimeIdle /\ CcfIdle

Next ==
    \/ NextFile \/ LoadFits \/ RestFrame \/ MergeOrders \/ CalcSIndex
    \/ CalcHalpha \/ CalcHeI \/ CalcNaI \/ Complete \/ Convert

Spec == Init /\ [][Next]_vars

----------------------------------------------------------------------------
\* spectra_utils.py: merge_echelle(data, header, out='', save=False)

\* bounds of the merge inputs
MaxOrders == 3
NPix == 6
MaxShift == 3

\* np.linspace(..., 1000) in merge_echelle
GridN == 1000

\* the tolerance of abs(wave - w) < 0.1, doubled, in units of 0.04 A
Tol2 == 5

\* element j (0-based, as in the code) of a sequence
At(q, j) == q[j + 1]
\* q[a:b + 1]
Slice_keeps_end(q, a, b) ==
    IF a >= Min(b + 1, Len(q))
      THEN <<>> ELSE SubSeq(q, a + 1, Min(b + 1, Len(q)))

\* q[a:b] for 0 <= a, b (Python slice)
Slice(q, a, b) ==
    IF a >= Min(b, Len(q)) THEN <<>> ELSE SubSeq(q, a + 1, Min(b, Len(q)))

\* order i (0-based) of the data array
Order(data, i) == data[i + 1]

RECURSIVE Gcd(_, _)
Gcd(a, b) == IF b = 0 THEN a ELSE Gcd(b, a % b)
Lcm(a, b) == (a * b) \div Gcd(a, b)

RECURSIVE SpacingLcm(_)
\* a common multiple of the pixel spacings of a wavelength array: the
\* denominator over which its interpolated values are carried
SpacingLcm(x) ==
    IF Len(x) < 2 THEN 1
    ELSE Lcm(x[2] - x[1], SpacingLcm(Tail(x)))

\* wav[k] of np.linspace(a, b, GridN), times GridN - 1
GridX(a, b, k) == (GridN - 1) * a + k * (b - a)

\* interp1d(x, y) raises for a point below x[0] or above x[-1]
InterpInRange(x, X) ==
    (GridN - 1) * x[1] <= X /\ X <= (GridN - 1) * x[Len(x)]

\* interp1d(x, y)(X / G) times G * L, L being SpacingLcm(x): with
\* hi = searchsorted(x, x_new) clipped to 1..len-1 and lo = hi - 1 it is
\* y_lo + (y_hi - y_lo) / (x_hi - x_lo) * (x_new - x_lo)
InterpNum(x, y, L, G, X) ==
    LET first == Cardinality({j \in 1..Len(x) : G * x[j] < X})
        hi == Max(1, Min(first, Len(x) - 1))
        dx == At(x, hi) - At(x, hi - 1)
    IN  (At(y, hi - 1) * G * dx
           + (At(y, hi) - At(y, hi - 1)) * (X - G * At(x, hi - 1)))
          * (L \div dx)

\* abs(spl_current(wav) - spl_next(wav)) at grid point k, over the common
\* denominator (GridN - 1) * Lc * Ln (the spacing multiples of the orders)
SnDiff(cur_o, next_o, Lc, Ln, k) ==
    LET X == GridX(next_o.wave[1], cur_o.wave[Len(cur_o.wave)], k)
    IN  Abs(InterpNum(cur_o.wave, cur_o.sn, Lc, GridN - 1, X) * Ln
            - InterpNum(next_o.wave, next_o.sn, Ln, GridN - 1, X) * Lc)

RECURSIVE ArgMinIn(_, _, _, _, _, _)
\* np.argmin of SnDiff over the grid points lo..hi: <<index, value>> of the
\* first smallest element
ArgMinIn(cur_o, next_o, Lc, Ln, lo, hi) ==
    IF lo = hi THEN <<lo, SnDiff(cur_o, next_o, Lc, Ln, lo)>>
    ELSE LET m == (lo + hi) \div 2
             l == ArgMinIn(cur_o, next_o, Lc, Ln, lo, m)
             r == ArgMinIn(cur_o, next_o, Lc, Ln, m + 1, hi)
         IN  IF r[2] < l[2] THEN r ELSE l

\* np.where(abs(wave - w) < 0.1)[0], w = X / (GridN - 1)
Within(x, X) ==
    {j \in 0..Len(x) - 1 :
        2 * Abs((GridN - 1) * At(x, j) - X) < (GridN - 1) * Tol2}
First(S) == CHOOSE j \in S : \A m \in S : j <= m

\* one pass of the loop body for the pair (i, i-1): what it finds.  The grid
\* runs between a and b, so both interpolants are defined on all of it when
\* they are defined at its two ends.
Pair(data, i) ==
    LET cur_o  == Order(data, i)
        next_o == Order(data, i - 1)
        a == next_o.wave[1]
        b == cur_o.wave[Len(cur_o.wave)]
        inrange == \A k \in {0, GridN - 1} :
                      /\ InterpInRange(cur_o.wave, GridX(a, b, k))
                      /\ InterpInRange(next_o.wave, GridX(a, b, k))
        kmin == ArgMinIn(cur_o, next_o, SpacingLcm(cur_o.wave),
                         SpacingLcm(next_o.wave), 0, GridN - 1)[1]
        X == GridX(a, b, kmin)
        ce == Within(cur_o.wave, X)
        ns == Within(next_o.wave, X)
    IN  IF ~inrange
          THEN [err |-> "ValueError", k |-> 0, cur_end |-> 0, next_start |-> 0]
        ELSE IF ce = {}
          THEN [err |-> "IndexError", k |-> kmin, cur_end |-> 0,
                next_start |-> 0]
        ELSE IF ns = {}
          THEN [err |-> "IndexError", k |-> kmin, cur_end |-> First(ce),
                next_start |-> 0]
        ELSE [err |-> "", k |-> kmin, cur_end |-> First(ce),
              next_start |-> First(ns)]

MergeFrame == /\ UNCHANGED <<batchVars, fluxVars, restVars, indexVars,
                            logVars,
                    timeVars, ccfVars>>
              /\ UNCHANGED mdata

\* lines 221-252: one iteration of for i in range(data.shape[1] - 1, 0, -1)
MergePair ==
    /\ mpc = "loop" /\ mi >= 1
    /\ \E p \in {Pair(mdata, mi)} :
         LET o == Order(mdata, mi)
         IN
           IF p.err # ""
             THEN /\ mpc' = "raised" /\ merr' = p.err
                  /\ cross' = Append(cross, [i |-> mi, k |-> p.k,
                                cur_end |-> p.cur_end,
                                next_start |-> p.next_start])
                  /\ UNCHANGED <<mi, next_start, waves, fluxes, errors, sn,
                                 src>>
             ELSE /\ waves'  = waves  \o Slice(o.wave, next_start, p.cur_end)
                  /\ fluxes' = fluxes \o Slice(o.flux, next_start, p.cur_end)
                  /\ errors' = errors \o Slice(o.err, next_start, p.cur_end)
                  /\ sn'     = sn     \o Slice(o.sn, next_start, p.cur_end)
                  /\ src' = src \o Slice([j \in 1..Len(o.wave) |->
                                            <<mi, j - 1>>],
                                         next_start, p.cur_end)
                  /\ next_start' = p.next_start
                  /\ cross' = Append(cross, [i |-> mi, k |-> p.k,
                                cur_end |-> p.cur_end,
                                next_start |-> p.next_start])
                  /\ mi' = mi - 1
                  /\ mpc' = IF mi - 1 >= 1 THEN "loop" ELSE "tail"
                  /\ merr' = merr
    /\ MergeFrame

\* lines 254-257 and the return: the rest of order 0 (wave_next of the last
\* iteration); with a single order wave_next was never assigned
MergeTail ==
    /\ mpc = "tail"
    /\ IF Len(mdata) < 2
         THEN /\ mpc' = "raised" /\ merr' = "UnboundLocalError"
              /\ UNCHANGED <<waves, fluxes, errors, sn, src>>
         ELSE LET o == Order(mdata, 0)
                  n == Len(o.wave)
              IN  /\ waves'  = waves  \o Slice(o.wave, next_start, n)
                  /\ fluxes' = fluxes \o Slice(o.flux, next_start, n)
                  /\ errors' = errors \o Slice(o.err, next_start, n)
                  /\ sn'     = sn     \o Slice(o.sn, next_start, n)
                  /\ src' = src \o Slice([j \in 1..n |-> <<0, j - 1>>],
                                         next_start, n)
                  /\ mpc' = "done" /\ merr' = merr
    /\ UNCHANGED <<mi, next_start, cross>>
    /\ MergeFrame

\* signal-to-noise profiles along an order: falling, flat, rising
SnShapes == { [j \in 1..NPix |-> NPix + 1 - j],
              [j \in 1..NPix |-> 1],
              [j \in 1..NPix |-> j] }

\* an order of NPix pixels starting at wavelength a with pixel spacing s;
\* flux 1 everywhere, the error channel numbers the pixels
MakeOrder(i, a, s, shape) ==
    [ wave |-> [j \in 1..NPix |-> a + (j - 1) * s],
      flux |-> [j \in 1..NPix |-> 1],
      err  |-> [j \in 1..NPix |-> 10 * i + j],
      sn   |-> shape ]

\* spectra of n orders: the highest order starts at 0, each lower order
\* starts d above the order after it
MergeInputs(n) ==
    { [i \in 1..n |->
         MakeOrder(i - 1, start[i], s, shapes[i])] :
        s \in {1, 6},
        shapes \in [1..n -> SnShapes],
        start \in { [i \in 1..n |-> (n - i) * d] : d \in 1..MaxShift } }

InitMerge ==
    /\ \E n \in 1..MaxOrders : mdata \in MergeInputs(n)
    /\ mi = Len(mdata) - 1
    /\ mpc = IF Len(mdata) - 1 >= 1 THEN "loop" ELSE "tail"
    /\ next_start = 0
    /\ waves = <<>> /\ fluxes = <<>> /\ errors = <<>> /\ sn = <<>>
    /\ src = <<>> /\ cross = <<>> /\ merr = ""
    /\ BatchIdle /\ FluxIdle /\ RestIdle /\ IndexIdle /\ LogIdle
    /\ TimeIdle /\ CcfIdle

NextMerge == MergePair \/ MergeTail

SpecMerge == InitMerge /\ [][NextMerge]_vars

----------------------------------------------------------------------------
\* utils.py: get_line_flux(wavelength, flux, line, width, filt, error=None)
\* Positions are carried doubled (x2 = 2 * x), so that half a width is an
\* integer.

\* bounds of the band inputs
FluxLen == 6
MaxLine == 10
MaxWidth == 5

\* q[a:b] with a possibly negative start (Python slice)
PySlice(q, a, b) ==
    LET a1 == IF a < 0 THEN Max(a + Len(q), 0) ELSE Min(a, Len(q))
        b1 == IF b < 0 THEN Max(b + Len(q), 0) ELSE Min(b, Len(q))
    IN  IF a1 >= b1 THEN <<>> ELSE SubSeq(q, a1 + 1, b1)

\* get_response without "width /= 2" for the square filter
get_response_keeps_width(line, width, filt) ==
    [lo2 |-> 2 * line - 2 * width, hi2 |-> 2 * line + 2 * width,
     width2 |-> 2 * width]

\* get_response(line, width, filt): the ends of w_resp (doubled) and the
\* width it returns (doubled)
get_response(line, width, filt) ==
    IF filt = "square"
      THEN [lo2 |-> 2 * line - width, hi2 |-> 2 * line + width,
            width2 |-> width]
      ELSE [lo2 |-> 2 * line - 2 * width, hi2 |-> 2 * line + 2 * width,
            width2 |-> 2 * width]

\* resp_f of the square filter at the doubled position X2 / scale: ones on
\* w_resp, fill_value 0 outside
resp_f(r, X2, scale) ==
    IF scale * r.lo2 <= X2 /\ X2 <= scale * r.hi2 THEN 1 ELSE 0

RECURSIVE ArgMinSeq(_, _, _)
\* np.argmin of a sequence, 0-based: the first smallest element
ArgMinSeq(D, k, best) ==
    IF k > Len(D) THEN best - 1
    ELSE ArgMinSeq(D, k + 1, IF D[k] < D[best] THEN k ELSE best)

\* get_ini_end(x, mid, width), on doubled positions
get_ini_end(x, mid2, width2) ==
    [ ini |-> ArgMinSeq([j \in 1..Len(x) |-> Abs(2 * x[j] - (mid2 - width2))],
                        2, 1),
      end |-> ArgMinSeq([j \in 1..Len(x) |-> Abs(2 * x[j] - (mid2 + width2))],
                        2, 1) ]

\* w[j] of np.linspace(line - width, line + width, n), times LinScale(n)
LinScale(n) == IF n >= 2 THEN 2 * (n - 1) ELSE 2
LinX(lo2, hi2, n, j) ==
    IF n >= 2 THEN (n - 1) * lo2 + j * (hi2 - lo2) ELSE lo2

RECURSIVE SumTo(_, _)
SumTo(f, n) == IF n = 0 THEN 0 ELSE f[n] + SumTo(f, n - 1)

\* lines 49-53 and 60: the interpolation grid, interp1d on the slice with
\* two guard pixels, and the two trapezoid sums
integrate(wavelength, flux, r, line, width2, ini, end) ==
    LET n   == end - ini
        lo2 == 2 * line - width2
        hi2 == 2 * line + width2
        xs  == PySlice(wavelength, ini - 2, end + 2)
        ys  == PySlice(flux, ini - 2, end + 2)
        S   == LinScale(n)
        L   == SpacingLcm(xs)
        W   == [j \in 1..n |-> LinX(lo2, hi2, n, j - 1)]
        inrange == \A j \in 1..n :
                      S * xs[1] <= W[j] /\ W[j] <= S * xs[Len(xs)]
        f   == [j \in 1..n |-> InterpNum(xs, ys, L, S, W[j])]
        rs  == [j \in 1..n |-> resp_f(r, 2 * W[j], S)]
        num == SumTo([j \in 1..n - 1 |-> f[j] * rs[j] + f[j + 1] * rs[j + 1]],
                     n - 1)
        den == SumTo([j \in 1..n - 1 |-> rs[j] + rs[j + 1]], n - 1)
    IN  IF n < 0 \/ Len(xs) = 0 \/ ~inrange
          THEN [kind |-> "raised", num |-> 0, den |-> 1, n |-> n,
                lo2 |-> lo2, hi2 |-> hi2]
        ELSE IF n <= 1 \/ den = 0
          THEN [kind |-> "nan", num |-> 0, den |-> 1, n |-> n,
                lo2 |-> lo2, hi2 |-> hi2]
        ELSE [kind |-> "value", num |-> num, den |-> den * S * L, n |-> n,
              lo2 |-> lo2, hi2 |-> hi2]

\* lines 54-56 with the response left out of num
flux_error_unweighted(wavelength, error, r, ini, end) ==
    LET es == Slice(error, ini, end)
        xs == Slice(wavelength, ini, end)
    IN  [num |-> SumTo([j \in 1..Len(xs) |-> es[j] * es[j]], Len(xs)),
         den |-> SumTo([j \in 1..Len(xs) |-> resp_f(r, 2 * xs[j], 1)
                                              * resp_f(r, 2 * xs[j], 1)],
                       Len(xs))]

\* lines 54-56: num.sum() and den.sum() of the error branch; var is their
\* quotient (nan when den.sum() is 0) and sigma its square root
flux_error(wavelength, error, r, ini, end) ==
    LET es == Slice(error, ini, end)
        xs == Slice(wavelength, ini, end)
        w  == [j \in 1..Len(xs) |-> resp_f(r, 2 * xs[j], 1)]
    IN  [num |-> SumTo([j \in 1..Len(xs) |-> (es[j] * w[j]) * (es[j] * w[j])],
                       Len(xs)),
         den |-> SumTo([j \in 1..Len(xs) |-> w[j] * w[j]], Len(xs))]

\* lines 54-60: what get_line_flux returns, the flux alone (sigma None) or
\* the pair of the flux and sigma, sigma carried as num and den of var
line_flux(flux_out, error, var) ==
    [f \in DOMAIN flux_out \cup {"sigma"} |->
       IF f # "sigma" THEN flux_out[f]
       ELSE IF flux_out.kind = "raised" \/ error = None THEN None
       ELSE Some(var)]

FluxFrame == /\ UNCHANGED <<batchVars, mergeVars, restVars, indexVars,
                           logVars,
                    timeVars, ccfVars>>
             /\ UNCHANGED fin

\* line 47: resp_f, width = get_response(line, width, filt)
GetResponse ==
    /\ fpc = "response"
    /\ fx' = [resp |-> get_response(fin.line, fin.width, fin.filt),
              ini |-> 0, end |-> 0]
    /\ fpc' = "ini_end"
    /\ UNCHANGED fout
    /\ FluxFrame

\* line 48: ini, end = get_ini_end(wavelength, line, width)
GetIniEnd ==
    /\ fpc = "ini_end"
    /\ LET ie == get_ini_end(fin.wavelength, 2 * fin.line, fx.resp.width2)
       IN  fx' = [fx EXCEPT !.ini = ie.ini, !.end = ie.end]
    /\ fpc' = "integrate"
    /\ UNCHANGED fout
    /\ FluxFrame

\* lines 49-60: interpolate, integrate, the error branch, return
Integrate ==
    /\ fpc = "integrate"
    /\ fout' = line_flux(
                  integrate(fin.wavelength, fin.flux, fx.resp, fin.line,
                            fx.resp.width2, fx.ini, fx.end),
                  fin.error,
                  flux_error(fin.wavelength, fin.error, fx.resp, fx.ini,
                             fx.end))
    /\ fpc' = "done"
    /\ UNCHANGED fx
    /\ FluxFrame

\* wavelength arrays of FluxLen pixels starting at 0, spacings 1 or 2
FluxWaves ==
    { [j \in 1..FluxLen |-> SumTo([m \in 1..FluxLen |-> IF m = 1 THEN 0
                                                        ELSE d[m - 1]], j)] :
        d \in [1..FluxLen - 1 -> {1, 2}] }

\* flux arrays: the constants 1 and 3, and a ramp
FluxArrays ==
    { [j \in 1..FluxLen |-> 1], [j \in 1..FluxLen |-> 3],
      [j \in 1..FluxLen |-> j] }

\* the error argument: None, or an array that numbers the pixels
FluxErrors == { None, [j \in 1..FluxLen |-> j] }

InitFlux ==
    /\ fin \in [wavelength : FluxWaves, flux : FluxArrays,
                line : 0..MaxLine, width : 1..MaxWidth, filt : {"square"},
                error : FluxErrors]
    /\ fx = <<>> /\ fout = <<>> /\ fpc = "response"
    /\ BatchIdle /\ MergeIdle /\ RestIdle /\ IndexIdle /\ LogIdle
    /\ TimeIdle /\ CcfIdle

NextFlux == GetResponse \/ GetIniEnd \/ Integrate

SpecFlux == InitFlux /\ [][NextFlux]_vars

----------------------------------------------------------------------------
\* spectra_utils.py: correct_to_rest(data, mask), crosscorr.py: ccf, ccf_fit

\* bound of the rest-frame inputs: the largest number of echelle orders
RestOrders == 3

\* astropy.constants.c in m/s
SpeedOfLight == 299792458

\* the radial velocities tested by the cross-correlation, in km/s
RvGrid == <<-30, 0, 30>>

\* the channels of the data array: 0 wavelength, 2 error, 4 and 5 the
\* normalised fluxes, 8 signal-to-noise
Channels == 0..8

\* the lines of a mask file: lower edge, upper edge and weight of each line
MaskLines(m) ==
    { [lines1 |-> x, lines2 |-> x, flux_l |-> IF m = "G2" THEN 1 ELSE 2] :
        x \in 2..RestOrders + 3 }

\* the middle element of an odd-length sequence of integers (np.median)
Median(q) ==
    CHOOSE v \in Range(q) :
        /\ 2 * Cardinality({k \in 1..Len(q) : q[k] < v}) < Len(q)
        /\ 2 * Cardinality({k \in 1..Len(q) : q[k] > v}) < Len(q)

\* np.median of a sequence of integers, doubled (even lengths take the mean
\* of the two middle elements)
Median2(q) ==
    LET n == Len(q)
        kth(m) == CHOOSE v \in Range(q) :
                    /\ Cardinality({k \in 1..n : q[k] < v}) < m
                    /\ Cardinality({k \in 1..n : q[k] <= v}) >= m
    IN  IF n % 2 = 1 THEN 2 * kth((n + 1) \div 2)
        ELSE kth(n \div 2) + kth(n \div 2 + 1)

\* ccf(wave, flux, mask): the mask file is read, its lines strictly inside
\* the order are laid on the template, the order is correlated with the
\* template shifted to each velocity of the grid (one pixel per grid step)
\* and the result is divided by its median
ccf(wave, flux, m) ==
    IF m \notin MaskStore
      THEN [raised |-> TRUE, rv_temp |-> <<>>, cc |-> <<>>]
      ELSE
        LET sel == {l \in MaskLines(m) :
                      l.lines1 > wave[1] /\ l.lines2 < wave[Len(wave)]}
            ftem_at(x) == IF \E l \in sel : x >= l.lines1 /\ x <= l.lines2
                         THEN (CHOOSE l \in sel :
                                 x >= l.lines1 /\ x <= l.lines2).flux_l
                         ELSE 0
            mid == (Len(RvGrid) + 1) \div 2
            cc == [k \in 1..Len(RvGrid) |->
                     SumTo([j \in 1..Len(wave) |->
                              flux[j] * ftem_at(wave[j] + k - mid)],
                      Len(wave))]
        IN  [raised |-> FALSE, rv_temp |-> RvGrid,
             cc |-> [k \in 1..Len(RvGrid) |-> cc[k] \div Median(cc)]]

\* np.median(ccf_arr, axis=0), doubled
MedianCcf2(arr) ==
    [k \in 1..Len(RvGrid) |-> Median2([a \in 1..Len(arr) |-> arr[a].cc[k]])]

\* data[[0, 5, 4, 8], :, :]: advanced indexing builds a new array
FancyIndex(a, chans) == [c \in 0..Len(chans) - 1 |-> a[chans[c + 1]]]

\* feros_velocity_correction, but order 0 keeps its observed wavelengths
feros_velocity_correction_skips_order0(h, d, rv_ms) ==
    LET wave == h[d][0]
        wid == Len(h) + 1
        rest == [o \in 1..Len(wave) |->
                   [j \in 1..Len(wave[o]) |->
                      IF o = 1 THEN <<wave[o][j], 1>>
                      ELSE <<wave[o][j] * SpeedOfLight,
                             SpeedOfLight + rv_ms>>]]
    IN  [heap |-> Append(h, [c \in {0} |-> rest]),
         w |-> [id |-> wid, chan |-> 0], f |-> [id |-> d, chan |-> 1]]

\* feros_velocity_correction(data, rv): h is the memory, d the identity of
\* the data argument.  wave and flux are views of the argument, wave_rest is
\* a deep copy of wave that is divided in place by gamma = 1 + rv / c, order
\* by order; a quotient is held as <<numerator, denominator>>
feros_velocity_correction(h, d, rv_ms) ==
    LET wave == h[d][0]
        wid == Len(h) + 1
        rest == [o \in 1..Len(wave) |->
                   [j \in 1..Len(wave[o]) |->
                      <<wave[o][j] * SpeedOfLight, SpeedOfLight + rv_ms>>]]
    IN  [heap |-> Append(h, [c \in {0} |-> rest]),
         w |-> [id |-> wid, chan |-> 0], f |-> [id |-> d, chan |-> 1]]

RestFrameVars == /\ UNCHANGED <<batchVars, mergeVars, fluxVars, indexVars,
                               logVars,
                    timeVars, ccfVars>>
                 /\ UNCHANGED rmask

\* the body of "for o in range(data.shape[1] - 1, 0, -1)"
CcfOrder ==
    /\ rpc = "loop" /\ ro >= 1
    /\ LET data == heap[1]
           r == ccf(data[0][ro + 1], data[5][ro + 1], rmask)
       IN  /\ loads' = Append(loads, rmask)
           /\ IF r.raised
                THEN /\ rpc' = "raised" /\ rerr' = "OSError"
                     /\ UNCHANGED <<ccf_arr, rv_arr, ro>>
                ELSE /\ ccf_arr' = Append(ccf_arr, [order |-> ro, cc |-> r.cc])
                     /\ rv_arr' = Some(r.rv_temp)
                     /\ ro' = ro - 1
                     /\ rpc' = IF ro - 1 >= 1 THEN "loop" ELSE "fit"
                     /\ rerr' = rerr
    /\ UNCHANGED <<heap, med_ccf, rv, rout>>
    /\ RestFrameVars

\* np.median(ccf_arr, axis=0) and ccf_fit(rv_arr, med_ccf): the fit either
\* fails or settles on a velocity of the grid
FitMedian ==
    /\ rpc = "fit"
    /\ IF rv_arr = None
         THEN /\ rpc' = "raised" /\ rerr' = "UnboundLocalError"
              /\ UNCHANGED <<med_ccf, rv>>
         ELSE /\ med_ccf' = MedianCcf2(ccf_arr)
              /\ \/ /\ rpc' = "raised" /\ rerr' = "RuntimeError"
                    /\ rv' = rv
                 \/ /\ \E k \in 1..Len(RvGrid) : rv' = rv_arr[1][k]
                    /\ rpc' = "correct" /\ rerr' = rerr
    /\ UNCHANGED <<heap, ro, ccf_arr, rv_arr, loads, rout>>
    /\ RestFrameVars

\* feros_velocity_correction(data[[0, 5, 4, 8], :, :], rv * 1000, False)
VelocityCorrection ==
    /\ rpc = "correct"
    /\ LET sub == Append(heap, FancyIndex(heap[1], <<0, 5, 4, 8>>))
           r == feros_velocity_correction(sub, Len(sub), rv * 1000)
       IN  /\ heap' = r.heap
           /\ rout' = [w |-> r.w, f |-> r.f]
    /\ rpc' = "done"
    /\ UNCHANGED <<ro, ccf_arr, rv_arr, loads, med_ccf, rv, rerr>>
    /\ RestFrameVars

\* flux profiles of an order (channel 5), pixel by pixel
RestFluxes == { <<1, 0, 2>>, <<2, 0, 4>>, <<0, 1, 3>> }

\* the data array of a spectrum of n orders whose fluxes are fl[1..n]:
\* order o (0-based) covers the wavelengths o+1 .. o+3
RestData(n, fl) ==
    [c \in Channels |->
       [o \in 1..n |->
          [j \in 1..Len(fl[o]) |->
             IF c = 0 THEN o - 1 + j
             ELSE IF c = 5 THEN fl[o][j]
             ELSE 10 * c + o]]]

InitRest ==
    /\ \E n \in 1..RestOrders : \E fl \in [1..n -> RestFluxes] :
         /\ heap = <<RestData(n, fl)>>
         /\ ro = n - 1
         /\ rpc = IF n - 1 >= 1 THEN "loop" ELSE "fit"
    /\ rmask \in {"G2", "K0", "XX"}
    /\ ccf_arr = <<>> /\ rv_arr = None /\ loads = <<>> /\ med_ccf = <<>>
    /\ rv = 0 /\ rout = <<>> /\ rerr = ""
    /\ BatchIdle /\ MergeIdle /\ FluxIdle /\ IndexIdle /\ LogIdle
    /\ TimeIdle /\ CcfIdle

NextRest == CcfOrder \/ FitMedian \/ VelocityCorrection

SpecRest == InitRest /\ [][NextRest]_vars

----------------------------------------------------------------------------
\* processor.py: _calculate_s_index, _calculate_halpha, _calculate_hei,
\* _calculate_nai on the (flux, sigma) pairs get_line_flux returned.  A
\* quotient is [kind, n, d]: the value n / d, or "nonfinite" where the float
\* division gives inf or nan; an error is held as its square, with its sign

Quot(n, d) ==
    [kind |-> IF d = 0 THEN "nonfinite" ELSE "value", n |-> n, d |-> d]

NonFinite == [kind |-> "nonfinite", neg |-> FALSE, n |-> 0, d |-> 1]

\* X * sqrt((snum / num) ** 2 + (sden / den) ** 2), but without the factor X
index_error_relative(X, num, den, snum2, sden2) ==
    IF X.kind # "value" \/ num = 0 \/ den = 0 THEN NonFinite
    ELSE [kind |-> "value", neg |-> FALSE,
          n |-> snum2 * den * den + sden2 * num * num,
          d |-> num * num * den * den]

\* X * np.sqrt((snum / num) ** 2 + (sden / den) ** 2), squared; snum2 and
\* sden2 are the squares of the numerator's and the denominator's sigma
index_error(X, num, den, snum2, sden2) ==
    IF X.kind # "value" \/ num = 0 \/ den = 0 THEN NonFinite
    ELSE [kind |-> "value", neg |-> X.n * X.d < 0,
          n |-> X.n * X.n * (snum2 * den * den + sden2 * num * num),
          d |-> X.d * X.d * num * num * den * den]

SentinelPair ==
    [val |-> [kind |-> "sentinel", n |-> Sentinel, d |-> 1],
     err |-> [kind |-> "sentinel", neg |-> TRUE, n |-> Sentinel, d |-> 1]]

\* _calculate_s_index: b.cont = <<V, R>>, b.lines = <<K, H>>
calculate_s_index_bands(inst, b) ==
    IF inst \in s_exceptions THEN SentinelPair
    ELSE LET NV == b.cont[1]  NR == b.cont[2]
             NK == b.lines[1] NH == b.lines[2]
             S == Quot(NH.F + NK.F, NR.F + NV.F)
         IN  [val |-> S,
              err |-> index_error(S, NH.F + NK.F, NR.F + NV.F,
                                  NH.s * NH.s + NK.s * NK.s,
                                  NV.s * NV.s + NR.s * NR.s)]

\* _calculate_halpha: b.lines = <<Ha>>, b.cont = <<F1, F2>>
calculate_halpha(b) ==
    LET FHa == b.lines[1]  F1 == b.cont[1]  F2 == b.cont[2]
        Halpha == Quot(2 * FHa.F, F1.F + F2.F)
    IN  [val |-> Halpha,
         err |-> index_error(Halpha, FHa.F, F1.F + F2.F, FHa.s * FHa.s,
                             F1.s * F1.s + F2.s * F2.s)]

\* _calculate_hei: b.lines = <<HeI>>, b.cont = <<F1, F2>>
calculate_hei(b) ==
    LET FHeI == b.lines[1]  F1 == b.cont[1]  F2 == b.cont[2]
        HelI == Quot(2 * FHeI.F, F1.F + F2.F)
    IN  [val |-> HelI,
         err |-> index_error(HelI, FHeI.F, F1.F + F2.F, FHeI.s * FHeI.s,
                             F1.s * F1.s + F2.s * F2.s)]

\* _calculate_nai: b.lines = <<D1, D2>>, b.cont = <<L, R>>
calculate_nai(b) ==
    LET D1 == b.lines[1]  D2 == b.lines[2]
        L == b.cont[1]    R == b.cont[2]
        NaID1D2 == Quot(D1.F + D2.F, R.F + L.F)
    IN  [val |-> NaID1D2,
         err |-> index_error(NaID1D2, D1.F + D2.F, R.F + L.F,
                             D1.s * D1.s + D2.s * D2.s,
                             L.s * L.s + R.s * R.s)]

IndexFrame == /\ UNCHANGED <<batchVars, mergeVars, fluxVars, restVars,
                             logVars,
                    timeVars, ccfVars>>
              /\ UNCHANGED <<ibands, iinst>>

IndexSIndex ==
    /\ ipc = "sindex"
    /\ ix' = [ix EXCEPT !.s_index = calculate_s_index_bands(iinst, ibands.s_index)]
    /\ ipc' = "halpha"
    /\ IndexFrame

IndexHalpha ==
    /\ ipc = "halpha"
    /\ ix' = [ix EXCEPT !.halpha = calculate_halpha(ibands.halpha)]
    /\ ipc' = "hei"
    /\ IndexFrame

IndexHeI ==
    /\ ipc = "hei"
    /\ ix' = [ix EXCEPT !.hei = calculate_hei(ibands.hei)]
    /\ ipc' = "nai"
    /\ IndexFrame

IndexNaI ==
    /\ ipc = "nai"
    /\ ix' = [ix EXCEPT !.nai_d1d2 = calculate_nai(ibands.nai_d1d2)]
    /\ ipc' = "done"
    /\ IndexFrame

\* band fluxes of a spectrum: line flux a (a second line has flux 2),
\* continuum fluxes c, line sigma p, continuum sigmas 1 and q
BandInputs ==
    { [k \in {"s_index", "nai_d1d2"} |->
         [lines |-> << [F |-> a, s |-> p], [F |-> 2, s |-> p] >>,
          cont  |-> << [F |-> c[1], s |-> 1], [F |-> c[2], s |-> q] >>]]
      @@
      [k \in {"halpha", "hei"} |->
         [lines |-> << [F |-> a, s |-> p] >>,
          cont  |-> << [F |-> c[1], s |-> 1], [F |-> c[2], s |-> q] >>]] :
        a \in {-1, 0, 1, 2}, c \in {<<1, 1>>, <<1, 3>>, <<1, -1>>},
        p \in {1, 2}, q \in {1, 2} }

NotComputed == [val |-> [kind |-> "none", n |-> 0, d |-> 1],
                err |-> [kind |-> "none", neg |-> FALSE, n |-> 0, d |-> 1]]

InitIndex ==
    /\ ibands \in BandInputs
    /\ iinst \in {Lower(i) : i \in InstValues}
    /\ ix = [k \in {"s_index", "halpha", "hei", "nai_d1d2"} |-> NotComputed]
    /\ ipc = "sindex"
    /\ BatchIdle /\ MergeIdle /\ FluxIdle /\ RestIdle /\ LogIdle
    /\ TimeIdle /\ CcfIdle

NextIndex == IndexSIndex \/ IndexHalpha \/ IndexHeI \/ IndexNaI

SpecIndex == InitIndex /\ [][NextIndex]_vars

----------------------------------------------------------------------------
\* processor.py: SpectrumProcessor._log_step; logger.py:
\* StructuredLogger.log_step.  A dict is the sequence of its <<key, value>>
\* items in insertion order; a value is a sequence of strings, a path being
\* the sequence of its components

\* bound: the number of calls made on an object
MaxCalls == 2

\* the keys and the value of a key of a dict
Keys(dict) == {dict[a][1] : a \in 1..Len(dict)}
Get(dict, k) == (CHOOSE a \in 1..Len(dict) : dict[a][1] = k)
ValueOf(dict, k) == dict[Get(dict, k)][2]

\* os.path.basename
basename(path) == IF Len(path) = 0 THEN path ELSE <<path[Len(path)]>>

RECURSIVE Join(_, _)
\* sep.join(parts)
Join(parts, sep) ==
    IF Len(parts) = 0 THEN ""
    ELSE IF Len(parts) = 1 THEN parts[1]
    ELSE parts[1] \o sep \o Join(Tail(parts), sep)

\* lines 526-536 of _log_step: the kwargs after the basename replacement
\* and the message handed to the logger
format_step(message, kwargs) ==
    LET kw == [a \in 1..Len(kwargs) |->
                 IF kwargs[a][1] = "filename"
                   THEN <<"filename", basename(kwargs[a][2])>>
                   ELSE kwargs[a]]
        extras == Join([a \in 1..Len(kw) |->
                          kw[a][1] \o "=" \o Join(kw[a][2], "/")], ", ")
    IN  [kwargs |-> kw,
         full_message |-> IF Len(kwargs) > 0
                            THEN message \o " (" \o extras \o ")"
                            ELSE message]

\* log_entry, but the keywords are left out
log_entry_drops_kwargs(now, step_name, status, kwargs) ==
    << <<"timestamp", <<ToString(now)>> >>, <<"step", <<step_name>> >>,
       <<"status", <<status>> >> >>

\* {'timestamp': now, 'step': step_name, 'status': status, **kwargs}: a
\* keyword named like one of the three fields replaces its value in place,
\* the other keywords follow in the order given
log_entry(now, step_name, status, kwargs) ==
    LET base == << <<"timestamp", <<ToString(now)>> >>,
                   <<"step", <<step_name>> >>, <<"status", <<status>> >> >>
    IN  [a \in 1..3 |->
           IF base[a][1] \in Keys(kwargs)
             THEN <<base[a][1], ValueOf(kwargs, base[a][1])>>
             ELSE base[a]]
        \o SelectSeq(kwargs, LAMBDA item : item[1] \notin Keys(base))

LogFrame == /\ UNCHANGED <<batchVars, mergeVars, fluxVars, restVars,
                           indexVars,
                    timeVars, ccfVars>>
            /\ UNCHANGED lcfg

\* the keyword sets handed to _log_step
StepKwargs ==
    { <<>>,
      << <<"filename", <<"test.fits">> >> >>,
      << <<"filename", <<"data", "night1", "test.fits">> >> >>,
      << <<"duration", <<"5.2">> >> >> }

\* SpectrumProcessor._log_step(message, **kwargs) with a callback that
\* records what it is handed
LogStep ==
    /\ lcfg.object = "processor" /\ Len(issued) < MaxCalls
    /\ \E message \in {"Loading FITS", "Converting to rest frame"},
          kwargs \in StepKwargs :
         LET r == format_step(message, kwargs)
         IN  /\ issued' = Append(issued,
                                 [message |-> message, kwargs |-> kwargs])
             /\ logged' = Append(logged, r.full_message)
             /\ received' = IF lcfg.callback
                              THEN Append(received, [message |-> message,
                                                     kwargs |-> r.kwargs])
                              ELSE received
    /\ UNCHANGED <<sissued, jsonfile, console, clock>>
    /\ LogFrame

\* the keyword sets handed to log_step
EntryKwargs ==
    { <<>>,
      << <<"filename", <<"test.fits">> >> >>,
      << <<"duration", <<"1.5">> >>, <<"rv", <<"12.3">> >> >>,
      << <<"step", <<"3">> >> >> }

\* StructuredLogger.log_step(step_name, status, **kwargs); opens tells
\* whether open(self.output_file, 'a') and the write succeed or raise
\* IOError
StructuredLogStep ==
    /\ lcfg.object = "logger" /\ Len(sissued) < MaxCalls
    /\ \E status \in {"started", "completed", "failed"},
          kwargs \in EntryKwargs,
          opens \in IF lcfg.output_file THEN BOOLEAN ELSE {TRUE} :
         LET entry == log_entry(clock, "Test Step", status, kwargs)
             wrote == lcfg.output_file /\ opens
         IN  /\ sissued' = Append(sissued,
                                  [step |-> "Test Step", status |-> status,
                                   kwargs |-> kwargs, wrote |-> wrote,
                                   now |-> clock])
             /\ jsonfile' = IF wrote THEN Append(jsonfile, entry)
                                     ELSE jsonfile
             /\ console' = console
                  \o (IF lcfg.output_file /\ ~opens
                        THEN << [level |-> "warning",
                                 message |-> <<"Failed to write to log file">>] >>
                        ELSE <<>>)
                  \o << [level |-> IF status = "failed" THEN "error"
                                                         ELSE "info",
                         message |-> entry] >>
    /\ clock' = clock + 1
    /\ UNCHANGED <<issued, received, logged>>
    /\ LogFrame

InitLog ==
    /\ lcfg \in { [object |-> o, callback |-> c, output_file |-> f] :
                    o \in {"processor", "logger"}, c \in BOOLEAN,
                    f \in BOOLEAN }
    /\ lcfg.object = "processor" => ~lcfg.output_file
    /\ lcfg.object = "logger" => ~lcfg.callback
    /\ issued = <<>> /\ received = <<>> /\ logged = <<>>
    /\ sissued = <<>> /\ jsonfile = <<>> /\ console = <<>> /\ clock = 0
    /\ BatchIdle /\ MergeIdle /\ FluxIdle /\ RestIdle /\ IndexIdle
    /\ TimeIdle /\ CcfIdle

NextLog == LogStep \/ StructuredLogStep

SpecLog == InitLog /\ [][NextLog]_vars

----------------------------------------------------------------------------
\* processor.py: successive process_file calls on one SpectrumProcessor and
\* its timing dictionary (specification SpecTiming)

MaxRuns == 3

\* the keys of self.timing, in the order in which process_file sets them
TimingKeys == << "load_fits", "rest_frame", "merge_echelle", "s_index",
                 "halpha", "hei", "nai" >>

\* the values time.time() - step_start takes in the model
Durations == {1, 2}

\* d[key] = value on a dict
SetItem(d, key, value) ==
    [k \in DOMAIN d \cup {key} |-> IF k = key THEN value ELSE d[k]]

\* self.timing after the first n steps of a call stored the duration t
RECURSIVE timed(_, _, _)
timed(d, n, t) ==
    IF n = 0 THEN d ELSE SetItem(timed(d, n - 1, t), TimingKeys[n], t)

\* processing_time=self.timing, the dict itself
timing_shared(h) == [heap |-> h, id |-> 1]

\* processing_time=self.timing.copy(): a new dict with the same items
timing_copy(h) == [heap |-> Append(h, h[1]), id |-> Len(h) + 1]

\* processing_time: field(default_factory=dict), a new empty dict
default_dict(h) == [heap |-> Append(h, <<>>), id |-> Len(h) + 1]

\* a ProcessingResult together with its processing_time field
WithProcessingTime(r, id) ==
    [f \in DOMAIN r \cup {"processing_time"} |->
       IF f = "processing_time" THEN id ELSE r[f]]

TimeFrame == /\ UNCHANGED <<batchVars, mergeVars, fluxVars, restVars,
                            indexVars, logVars,
                    ccfVars>>

\* process_file(filename, output_dir, save_1d) as a whole: raised is the
\* step that raises (0: none), t the duration of the steps of this call
ProcessFile ==
    /\ runs < MaxRuns
    /\ \E raised \in 0..Len(StepMsgs), t \in Durations :
         LET name == FileNames[runs + 1]
             done == IF raised = 0 THEN Len(TimingKeys) ELSE raised - 1
             h    == [dicts EXCEPT ![1] = timed(dicts[1], done, t)]
         IN  IF raised = 0
               THEN LET c == timing_copy(h)
                        r == SuccessResult(name,
                               [NoHdr EXCEPT !.bjd = 2459000 + runs],
                               [NoCur EXCEPT !.halpha = t])
                    IN  /\ dicts' = c.heap
                        /\ emitted' =
                             Append(emitted, WithProcessingTime(r, c.id))
               ELSE LET c == default_dict(h)
                        r == ErrorResult(name, StepMsgs[raised])
                    IN  /\ dicts' = c.heap
                        /\ emitted' =
                             Append(emitted, WithProcessingTime(r, c.id))
    /\ runs' = runs + 1
    /\ TimeFrame

\* SpectrumProcessor(...): self.timing = {}
InitTiming ==
    /\ dicts = << <<>> >> /\ emitted = <<>> /\ runs = 0
    /\ BatchIdle /\ MergeIdle /\ FluxIdle /\ RestIdle /\ IndexIdle
    /\ LogIdle /\ CcfIdle

NextTiming == ProcessFile

SpecTiming == InitTiming /\ [][NextTiming]_vars

----------------------------------------------------------------------------
\* crosscorr.py: the template ccf builds for pyasl.crosscorrRV
\* (specification SpecCcf)

\* bound of the template inputs: the largest number of pixels of wave
CcfLen == 3

\* the width in A of each of the two paddings
Padding == 200

\* np.arange(start, stop, step) for step > 0: start + k * step below stop
Arange(start, stop, step) ==
    [k \in 1..((stop - start + step - 1) \div step) |->
       start + (k - 1) * step]

\* lines 42-44: x1, x2 and wtem = np.hstack([x1, wave, x2])
template_grid(wave) ==
    LET n  == Len(wave)
        x1 == Arange(wave[1] - Padding, wave[1], wave[2] - wave[1])
        x2 == Arange(wave[n], wave[n] + Padding, wave[n] - wave[n - 1])
    IN  [x1 |-> x1, x2 |-> x2, wtem |-> x1 \o wave \o x2]

\* lines 47-50 without the test on the observed span
select_lines_unfiltered(wave, rows) == rows

\* lines 47-50: the rows with lines1 > wave[0] and lines2 < wave[-1]
select_lines(wave, rows) ==
    SelectSeq(rows, LAMBDA l :
                l.lines1 > wave[1] /\ l.lines2 < wave[Len(wave)])

\* lines 55-57: ftem after the row l was laid on it
lay_line(grid, tem, l) ==
    [j \in 1..Len(tem) |->
       IF grid[j] >= l.lines1 /\ grid[j] <= l.lines2
         THEN l.flux_l ELSE tem[j]]

CcfFrame == /\ UNCHANGED <<batchVars, mergeVars, fluxVars, restVars,
                           indexVars, logVars, timeVars>>
            /\ UNCHANGED <<cwave, clines>>

\* lines 42-44
CcfGrid ==
    /\ cpc = "grid"
    /\ wtem' = template_grid(cwave).wtem
    /\ cpc' = "mask"
    /\ UNCHANGED <<ftem, lines_new, ci>>
    /\ CcfFrame

\* lines 46-52: the mask file is read, its rows are selected, ftem is zero
CcfMask ==
    /\ cpc = "mask"
    /\ lines_new' = select_lines(cwave, clines)
    /\ ftem' = [j \in 1..Len(wtem) |-> 0]
    /\ ci' = 0
    /\ cpc' = IF Len(select_lines(cwave, clines)) > 0
                THEN "lines" ELSE "correlate"
    /\ UNCHANGED wtem
    /\ CcfFrame

\* lines 54-57: one iteration of for i in range(len(flux_l_new))
CcfLine ==
    /\ cpc = "lines" /\ ci < Len(lines_new)
    /\ ftem' = lay_line(wtem, ftem, At(lines_new, ci))
    /\ ci' = ci + 1
    /\ cpc' = IF ci + 1 < Len(lines_new) THEN "lines" ELSE "correlate"
    /\ UNCHANGED <<wtem, lines_new>>
    /\ CcfFrame

\* line 59: wtem and ftem are handed to pyasl.crosscorrRV
CcfCorrelate ==
    /\ cpc = "correlate"
    /\ cpc' = "done"
    /\ UNCHANGED <<wtem, ftem, lines_new, ci>>
    /\ CcfFrame

\* strictly increasing wavelength arrays of n pixels starting at 1000: the
\* first spacing is s1, every later one s2
CcfWaves(n) ==
    { [j \in 1..n |-> IF j = 1 THEN 1000 ELSE 1000 + s1 + (j - 2) * s2] :
        s1 \in {50, 100}, s2 \in {50, 70} }

\* mask files of two rows, sorted by wavelength, each row 10 A wide: rows
\* in the low padding, across wave[0], inside the span, across or beyond
\* wave[-1]
CcfMasks ==
    { << [lines1 |-> a, lines2 |-> a + 10, flux_l |-> 1],
         [lines1 |-> b, lines2 |-> b + 10, flux_l |-> 2] >> :
        a \in {900, 995, 1045, 1095}, b \in {1045, 1095, 1145, 1215, 1300} }

InitCcf ==
    /\ \E n \in 2..CcfLen : cwave \in CcfWaves(n)
    /\ clines \in CcfMasks
    /\ wtem = <<>> /\ ftem = <<>> /\ lines_new = <<>> /\ ci = 0
    /\ cpc = "grid"
    /\ BatchIdle /\ MergeIdle /\ FluxIdle /\ RestIdle /\ IndexIdle
    /\ LogIdle
    /\ TimeIdle

NextCcf == CcfGrid \/ CcfMask \/ CcfLine \/ CcfCorrelate

SpecCcf == InitCcf /\ [][NextCcf]_vars

----------------------------------------------------------------------------
\* Properties of get_activities / process_file (specification Spec)

IndexFields == {"s_index", "s_index_error", "halpha", "halpha_error",
                "hei", "hei_error", "nai_d1d2", "nai_d1d2_error"}

\* C1: process_file never lets an exception out: every file handed to it
\* yields a result; when a step raised, the result's errors field is the
\* exception message, its four index values and four index errors are the
\* sentinel -999 and its bjd is 0; when no step raised, errors is None.
C1_ExceptionsBecomeErrorResults ==
    /\ Len(results) = Len(excs)
    /\ Len(results) = fi - 1
    /\ \A j \in 1..Len(results) :
         /\ excs[j] # None =>
              /\ results[j].errors = excs[j]
              /\ \A k \in IndexFields : results[j][k] = Sentinel
              /\ results[j].bjd = 0
         /\ excs[j] = None => results[j].errors = None

\* a run in which one file failed in an index step and another succeeded
C1_Witness ==
    /\ \E j \in 1..Len(results) :
         excs[j] = Some(BandError) /\ results[j].errors = Some(BandError)
    /\ \E j \in 1..Len(results) :
         excs[j] = None /\ results[j].halpha # Sentinel

\* C2: files are processed one after another in input order: the steps are
\* recorded in non-decreasing file order, no step of file i+1 starts before
\* the result of file i is in the list, every file is loaded exactly once
\* whatever happened to the files before it, and the list returned has one
\* entry per input file, in input order.
C2_SequentialInInputOrder ==
    /\ \A a, b \in 1..Len(trace) : a < b => trace[a][1] <= trace[b][1]
    /\ \A a \in 1..Len(trace) : trace[a][1] <= Len(results) + 1
    /\ \A j \in 1..Len(results) : results[j].filename = files[j]
    /\ \A f \in 1..Len(files) :
         Cardinality({a \in 1..Len(trace) : trace[a] = <<f, "load">>})
           = IF f <= Len(results) THEN 1 ELSE
             IF f = fi /\ pc \notin {"loop", "load"} THEN 1 ELSE 0
    /\ pc = "returned" => Len(results) = Len(files)

\* the batch returned after its first file failed and a later one succeeded
C2_Witness ==
    /\ pc = "returned" /\ Len(files) >= 2
    /\ excs[1] # None
    /\ \E j \in 2..Len(results) : excs[j] = None

\* C3: a mask identifier without mask data aborts the run before any file
\* is processed: no step of any file runs and no per-file result is made.
C3_BadMaskAbortsBeforeAnyFile ==
    mask \notin MaskStore => trace = <<>> /\ results = <<>>

\* C4: when the header's INST value, lower-cased, is in s_exceptions, the
\* S-index step yields the sentinel for value and error and evaluates no
\* band flux.
C4_SIndexSentinelForExceptions ==
    (/\ pc \in {"halpha", "hei", "nai", "complete"}
     /\ hdr.inst \in { <<70, 73, 68, 69, 79, 83>>,
                       <<102, 105, 100, 101, 111, 115>> })
      => /\ cur.s_index = Sentinel
         /\ cur.s_index_error = Sentinel
         /\ cur.sBands = 0

\* the S-index step has run for a file whose header says "FIDEOS"
C4_Witness ==
    /\ pc = "halpha"
    /\ hdr.inst = <<70, 73, 68, 69, 79, 83>>
    /\ cur.s_index = Sentinel /\ cur.sBands = 0

----------------------------------------------------------------------------
\* Properties of merge_echelle (specification SpecMerge)

StrictlyIncreasing(q) == \A j \in 1..Len(q) - 1 : q[j] < q[j + 1]

\* every order has strictly increasing wavelengths, and every order i
\* overlaps order i-1, the order with the lower index reaching further up
OverlappingOrders(data) ==
    /\ \A i \in 1..Len(data) : StrictlyIncreasing(data[i].wave)
    /\ \A i \in 1..Len(data) - 1 :
         LET lower == Order(data, i).wave
             upper == Order(data, i - 1).wave
         IN  /\ lower[1] <= upper[1]
             /\ upper[1] <= lower[Len(lower)]
             /\ lower[Len(lower)] <= upper[Len(upper)]

\* C5: for two or more orders with strictly increasing wavelengths that
\* overlap their neighbours, the returned wavelength sequence is strictly
\* increasing and no input pixel occurs twice in the output.
C5_MergedWavelengthsIncrease ==
    (mpc = "done" /\ Len(mdata) >= 2 /\ OverlappingOrders(mdata))
      => /\ StrictlyIncreasing(waves)
         /\ \A a, b \in 1..Len(src) : a # b => src[a] # src[b]

\* the pair records of the passes in which some order had no pixel within
\* the tolerance of the crossover wavelength
NoPixelWithinTolerance(c) ==
    LET cur_o  == Order(mdata, c.i)
        next_o == Order(mdata, c.i - 1)
        X == GridX(next_o.wave[1], cur_o.wave[Len(cur_o.wave)], c.k)
    IN  Within(cur_o.wave, X) = {} \/ Within(next_o.wave, X) = {}

\* C6: when an order has no pixel within 0.1 A of the crossover wavelength
\* of a pair, merge_echelle does not fail but carries on (with the nearest
\* pixel) and returns a merged spectrum.
C6_FallsBackToNearestPixel ==
    \A j \in 1..Len(cross) :
        (cross[j].i >= 1 /\ OverlappingOrders(mdata)
           /\ NoPixelWithinTolerance(cross[j]))
          => mpc # "raised"

\* C7: for two overlapping orders with flux 1 at every pixel merge_echelle
\* returns; the flux returned is 1 everywhere, the first wavelength is the
\* first wavelength of the lower order (order 1) and the last wavelength is
\* the last wavelength of the higher order (order 0).
C7_TwoOrdersConstantFlux ==
    (/\ Len(mdata) = 2 /\ OverlappingOrders(mdata)
     /\ \A i \in 1..2 : \A j \in 1..Len(mdata[i].flux) : mdata[i].flux[j] = 1
     /\ mpc \in {"done", "raised"})
      => /\ mpc = "done"
         /\ \A j \in 1..Len(fluxes) : fluxes[j] = 1
         /\ Len(waves) > 0
         /\ waves[1] = Order(mdata, 1).wave[1]
         /\ waves[Len(waves)] = Order(mdata, 0).wave[Len(Order(mdata, 0).wave)]

\* the crossover wavelength, times GridN - 1, of the j-th pair walked
CrossoverX(j) ==
    LET cur_o  == Order(mdata, cross[j].i)
        next_o == Order(mdata, cross[j].i - 1)
    IN  GridX(next_o.wave[1], cur_o.wave[Len(cur_o.wave)], cross[j].k)

\* cross_i: the first pixel of order i within the tolerance of the
\* crossover wavelength of the pair (i, i-1)
PairCross(i) ==
    First(Within(Order(mdata, i).wave, CrossoverX(Len(mdata) - i)))

\* start_i: 0 for the highest order, else the first pixel of order i within
\* the tolerance of the crossover wavelength of the pair (i+1, i)
PairStart(i) ==
    IF i = Len(mdata) - 1 THEN 0
    ELSE First(Within(Order(mdata, i).wave, CrossoverX(Len(mdata) - i - 1)))

\* the pixels a..b-1 of order i
Pixels(i, a, b) == [p \in 1..Max(0, b - a) |-> <<i, a + p - 1>>]

RECURSIVE Walk(_)
\* the pixels of the orders i, i-1, ..., 0 in the order of the walk
Walk(i) ==
    IF i = 0
      THEN Pixels(0, PairStart(0), Len(Order(mdata, 0).wave))
      ELSE Pixels(i, PairStart(i), PairCross(i)) \o Walk(i - 1)

\* C22: a merge that returns walked the pairs (i, i-1) from the highest
\* order down to 1, took from order i exactly the pixels [start_i, cross_i)
\* and then order 0 from its carried-forward index to its end; the four
\* outputs hold the four channels of those pixels, so have equal length.
C22_WalkAppendsSlicesBetweenCrossovers ==
    mpc = "done" =>
      /\ [j \in 1..Len(cross) |-> cross[j].i]
           = [j \in 1..Len(mdata) - 1 |-> Len(mdata) - j]
      /\ src = Walk(Len(mdata) - 1)
      /\ Len(waves) = Len(src) /\ Len(fluxes) = Len(src)
      /\ Len(errors) = Len(src) /\ Len(sn) = Len(src)
      /\ \A j \in 1..Len(src) :
           LET o == Order(mdata, src[j][1])
           IN  /\ waves[j]  = At(o.wave, src[j][2])
               /\ fluxes[j] = At(o.flux, src[j][2])
               /\ errors[j] = At(o.err, src[j][2])
               /\ sn[j]     = At(o.sn, src[j][2])

\* three orders were merged and every order contributed pixels, the middle
\* one from a carried-forward index above 0
C22_Witness ==
    /\ mpc = "done" /\ Len(mdata) = 3
    /\ \A i \in 0..2 : \E j \in 1..Len(src) : src[j][1] = i
    /\ cross[1].next_start > 0
    /\ cross[2].cur_end > cross[1].next_start

----------------------------------------------------------------------------
\* Properties of get_line_flux (specification SpecFlux)

\* the band window reaches below the first or above the last wavelength
WindowOutside(lo2, hi2) ==
    \/ lo2 < 2 * fin.wavelength[1]
    \/ hi2 > 2 * fin.wavelength[Len(fin.wavelength)]

C9_ClampsWithoutError ==
    (fpc = "done" /\ WindowOutside(fout.lo2, fout.hi2))
      => fout.kind # "raised"

\* C10: on a constant flux k a square band of any width lying inside the
\* wavelength array integrates to k.
C10_ConstantFluxIntegratesToK ==
    (/\ fpc = "done" /\ fin.filt = "square"
     /\ ~WindowOutside(fout.lo2, fout.hi2)
     /\ \A j \in 1..Len(fin.flux) : fin.flux[j] = fin.flux[1])
      => /\ fout.kind = "value"
         /\ fout.num = fin.flux[1] * fout.den

RECURSIVE SumPixels(_, _, _)
\* the sum of F over the pixels with (0-based) index in [a, b)
SumPixels(F, a, b) ==
    IF a >= b THEN 0 ELSE At(F, a) + SumPixels(F, a + 1, b)

\* (error_i * response(wavelength_i))^2 and response(wavelength_i)^2
WeightedErrorSq ==
    [j \in 1..Len(fin.wavelength) |->
       (fin.error[j] * resp_f(fx.resp, 2 * fin.wavelength[j], 1))
         * (fin.error[j] * resp_f(fx.resp, 2 * fin.wavelength[j], 1))]
ResponseSq ==
    [j \in 1..Len(fin.wavelength) |->
       resp_f(fx.resp, 2 * fin.wavelength[j], 1)
         * resp_f(fx.resp, 2 * fin.wavelength[j], 1)]

\* C25: a get_line_flux call that returns gives, with an error array, the
\* flux and sigma with sigma^2 = sum (error_i * response(wavelength_i))^2
\* / sum response(wavelength_i)^2 over the original pixels with index in
\* [ini, end), and without an error array the flux alone.
C25_SigmaIsWeightedErrorOverBand ==
    (fpc = "done" /\ fout.kind # "raised") =>
      IF fin.error = None
        THEN fout.sigma = None
        ELSE /\ fout.sigma # None
             /\ fout.sigma[1].num = SumPixels(WeightedErrorSq, fx.ini, fx.end)
             /\ fout.sigma[1].den = SumPixels(ResponseSq, fx.ini, fx.end)

\* a flux and a sigma were returned for a band range that holds a pixel
\* inside and a pixel outside the response window
C25_Witness ==
    /\ fpc = "done" /\ fout.kind = "value" /\ fin.error # None
    /\ fout.sigma[1].den > 0
    /\ \E j \in fx.ini..fx.end - 1 : At(ResponseSq, j) = 0

----------------------------------------------------------------------------
\* Properties of correct_to_rest (specification SpecRest)

\* the number of orders of the data argument
RestN == Len(heap[1][0])

\* one cross-correlation function per order 0 .. N-1 of the data argument
AllCcfs ==
    [o \in 1..RestN |->
       [order |-> o - 1,
        cc |-> ccf(heap[1][0][o], heap[1][5][o], rmask).cc]]

\* C11: when correct_to_rest has left its loop and fitted the median, a
\* cross-correlation function was computed for every order 0 .. N-1 of the
\* input, and the median that was fitted is the element-wise median over
\* all N per-order functions.
C11_CcfForEveryOrder ==
    rpc \in {"correct", "done"} =>
        /\ {ccf_arr[a].order : a \in 1..Len(ccf_arr)} = 0..RestN - 1
        /\ Len(ccf_arr) = RestN
        /\ med_ccf = MedianCcf2(AllCcfs)

\* C12: the wavelengths correct_to_rest returns are, for every order (order
\* 0 included) and every pixel, the input wavelength divided by the one
\* factor 1 + v/c, v being the fitted velocity in m/s; the flux it returns
\* is channel 5 of the input, element for element; the wavelengths live in
\* an array of their own, and no step of the call changes the caller's
\* data array.
C12_RestFrameDividesEveryOrder ==
    /\ [](rpc = "done" =>
            /\ rout.w.id # 1
            /\ heap[rout.w.id][rout.w.chan] =
                  [o \in 1..RestN |->
                     [j \in 1..Len(heap[1][0][o]) |->
                        <<heap[1][0][o][j] * SpeedOfLight,
                          SpeedOfLight + rv * 1000>>]]
            /\ heap[rout.f.id][rout.f.chan] = heap[1][5])
    /\ [][heap'[1] = heap[1]]_vars

\* a spectrum of several orders was corrected for a non-zero velocity
C12_Witness ==
    rpc = "done" /\ rv # 0 /\ RestN >= 2 /\ Len(heap) = 3

\* C15: the line mask of an identifier is read from the mask store at most
\* once: however many ccf calls were made, no identifier was read twice.
C15_MaskLoadedAtMostOnce ==
    \A m \in Range(loads) :
        Cardinality({a \in 1..Len(loads) : loads[a] = m}) <= 1

----------------------------------------------------------------------------
\* Properties of the index formulas (specification SpecIndex)

\* the summed line flux and the summed continuum flux of an index
LineSum(b) == SumTo([j \in 1..Len(b.lines) |-> b.lines[j].F], Len(b.lines))
ContSum(b) == SumTo([j \in 1..Len(b.cont) |-> b.cont[j].F], Len(b.cont))

\* C13: each of H-alpha, HeI and NaI D1D2, once computed to a finite value,
\* equals LineFlux / (0.5 * (Continuum1 + Continuum2)), LineFlux being the
\* line-band flux (the sum of D1 and D2 for NaI):
\* Index * (Continuum1 + Continuum2) = 2 * LineFlux.
C13_IndexIsLineOverMeanContinuum ==
    \A k \in {"halpha", "hei", "nai_d1d2"} :
        (ipc # "idle" /\ ix[k].val.kind = "value") =>
            ix[k].val.n * ContSum(ibands[k])
              = 2 * LineSum(ibands[k]) * ix[k].val.d

\* the quadrature sums (squared) of the line sigmas and continuum sigmas
LineVar(b) ==
    SumTo([j \in 1..Len(b.lines) |-> b.lines[j].s * b.lines[j].s],
          Len(b.lines))
ContVar(b) ==
    SumTo([j \in 1..Len(b.cont) |-> b.cont[j].s * b.cont[j].s], Len(b.cont))

\* C14: for each of the four indices that was computed, the reported error
\* is Index * sqrt((s_num/num)^2 + (s_den/den)^2) with num, den the summed
\* line and continuum fluxes and s_num, s_den the quadrature sums of their
\* sigmas: error^2 * num^2 * den^2 = Index^2 * (s_num^2 * den^2 +
\* s_den^2 * num^2), the error has the sign of the index, and it is finite
\* exactly when the index is finite and num is not zero.
C14_ErrorIsIndexTimesRelativeError ==
    \A k \in {"s_index", "halpha", "hei", "nai_d1d2"} :
        (ipc # "idle" /\ ix[k].val.kind \in {"value", "nonfinite"}) =>
            LET b == ibands[k]
                num == LineSum(b)
                den == ContSum(b)
                X == ix[k].val
                e == ix[k].err
            IN  /\ e.kind = "value" <=> (X.kind = "value" /\ num # 0)
                /\ e.kind = "value" =>
                      /\ e.n * num * num * den * den * X.d * X.d
                           = X.n * X.n
                               * (LineVar(b) * den * den
                                    + ContVar(b) * num * num) * e.d
                      /\ e.neg <=> (X.n * X.d < 0)

\* all four indices were computed with finite errors, one of them negative
C14_Witness ==
    /\ ipc = "done"
    /\ \A k \in {"s_index", "halpha", "hei", "nai_d1d2"} :
         ix[k].err.kind = "value" /\ ix[k].err.n > 0
    /\ ix.halpha.err.neg
    /\ ibands.halpha.lines[1].s = 2

----------------------------------------------------------------------------
\* Properties of progress reporting in process_file (specification Spec)

\* the positions of process_file, in program order, one per step message
StepNames == << "load", "rest", "merge", "sindex", "halpha", "hei", "nai",
                "complete" >>
Pos(step) == CHOOSE k \in 1..Len(StepNames) : StepNames[k] = step

\* the progress callback raised while the file at position j was processed
CallbackRaisedIn(j) ==
    /\ callback.set
    /\ \E a \in 1..Len(trace) :
         trace[a][1] = j /\ StepMsgs[Pos(trace[a][2])] = callback.raiseAt

\* C16: progress reporting does not change results: no result is the error
\* result made from an exception of the progress callback; a file during
\* whose processing the callback raised still gets the result its steps
\* lead to.
C16_CallbackDoesNotChangeResults ==
    \A j \in 1..Len(results) :
        CallbackRaisedIn(j) => results[j].errors # Some(callback.msg)

\* step s of the file at position f has run to completion
StepDone(f, s) ==
    \/ f = fi /\ pc \in Range(StepNames) /\ Pos(pc) > Pos(s)
    \/ /\ f <= Len(results)
       /\ \/ excs[f] = None
          \/ \E b \in 1..Len(trace) :
               trace[b][1] = f /\ Pos(trace[b][2]) > Pos(s)

\* C17: every message delivered to a progress callback (one that returns
\* normally) names a step that has run and completed: no callback is
\* delivered for a step that has not run yet or that failed.
C17_CallbackAfterStepCompleted ==
    (callback.set /\ callback.raiseAt = "") =>
        \A a \in 1..Len(calls) :
            trace[a][2] # "complete" => StepDone(trace[a][1], trace[a][2])

----------------------------------------------------------------------------
\* Properties of _log_step and log_step (specification SpecLog)

\* two dicts hold the same items
DictEq(a, b) == Range(a) = Range(b)

\* C18: with a progress callback, every _log_step(message, **kwargs) call
\* reaches the callback exactly once, in call order, with that message and
\* with keyword metadata equal to the kwargs passed; without a callback
\* every call completes and nothing is delivered.
C18_LogStepForwardsKwargs ==
    lcfg.object = "processor" =>
        /\ Len(logged) = Len(issued)
        /\ ~lcfg.callback => received = <<>>
        /\ lcfg.callback =>
              /\ Len(received) = Len(issued)
              /\ \A a \in 1..Len(issued) :
                   /\ received[a].message = issued[a].message
                   /\ DictEq(received[a].kwargs, issued[a].kwargs)

\* the log_step calls whose write succeeded, in call order
Written == SelectSeq(sissued, LAMBDA c : c.wrote)

\* the file only grows at its end: earlier lines are never changed
AppendOnly ==
    [][Len(jsonfile') >= Len(jsonfile)
         /\ SubSeq(jsonfile', 1, Len(jsonfile)) = jsonfile]_vars

\* C19 as stated: with an output file configured every log_step call
\* appends exactly one line carrying a timestamp, step = the step argument,
\* status = the status argument and every keyword given; the file holds one
\* line per call in call order and earlier lines are never changed.
C19_OneLinePerCall ==
    /\ []((lcfg.object = "logger" /\ lcfg.output_file) =>
            /\ Len(jsonfile) = Len(sissued)
            /\ \A a \in 1..Len(jsonfile) :
                 /\ {"timestamp", "step", "status"} \subseteq Keys(jsonfile[a])
                 /\ ValueOf(jsonfile[a], "step") = <<sissued[a].step>>
                 /\ ValueOf(jsonfile[a], "status") = <<sissued[a].status>>
                 /\ \A b \in 1..Len(sissued[a].kwargs) :
                      /\ sissued[a].kwargs[b][1] \in Keys(jsonfile[a])
                      /\ ValueOf(jsonfile[a], sissued[a].kwargs[b][1])
                           = sissued[a].kwargs[b][2])
    /\ AppendOnly

\* C19, amended: with an output file configured, every log_step call whose
\* open and write succeed appends exactly one line, and a call whose write
\* raises IOError appends nothing and logs a warning; the file holds one
\* line per successful call, in call order; each line has the keys
\* timestamp, step and status and carries every keyword given; step and
\* timestamp are the step argument and the time of the call unless a
\* keyword of that name was given, which then replaces them; earlier lines
\* are never changed.
C19_OneLinePerSuccessfulWrite ==
    /\ []((lcfg.object = "logger" /\ lcfg.output_file) =>
            /\ Len(jsonfile) = Len(Written)
            /\ Cardinality({a \in 1..Len(console) :
                              console[a].level = "warning"})
                 = Len(sissued) - Len(Written)
            /\ \A a \in 1..Len(jsonfile) :
                 LET call == Written[a]
                     line == jsonfile[a]
                 IN  /\ {"timestamp", "step", "status"} \subseteq Keys(line)
                     /\ ValueOf(line, "status") = <<call.status>>
                     /\ "step" \notin Keys(call.kwargs) =>
                          ValueOf(line, "step") = <<call.step>>
                     /\ "timestamp" \notin Keys(call.kwargs) =>
                          ValueOf(line, "timestamp") = <<ToString(call.now)>>
                     /\ \A b \in 1..Len(call.kwargs) :
                          /\ call.kwargs[b][1] \in Keys(line)
                          /\ ValueOf(line, call.kwargs[b][1])
                               = call.kwargs[b][2])
    /\ AppendOnly

\* two calls were made, the first failed to write, the second wrote a line
\* with two keywords
C19_Witness ==
    /\ lcfg.object = "logger" /\ lcfg.output_file
    /\ Len(sissued) = 2 /\ ~sissued[1].wrote /\ sissued[2].wrote
    /\ Len(sissued[2].kwargs) = 2
    /\ Len(jsonfile) = 1 /\ Len(jsonfile[1]) = 5

----------------------------------------------------------------------------
\* Properties of the saved 1D spectrum (specification Spec)

\* C20: for every file process_file completed successfully, with save_1d
\* true the spectrum_1d_path of its result is the name of a file that
\* merge_echelle wrote, and with save_1d false it is None and merge_echelle
\* wrote no file.
C20_PathIsTheFileWritten ==
    \A i \in 1..Len(results) :
      results[i].errors = None =>
        IF save
          THEN /\ results[i].spectrum_1d_path # None
               /\ results[i].spectrum_1d_path[1] \in disk
          ELSE /\ results[i].spectrum_1d_path = None
               /\ disk = {}

----------------------------------------------------------------------------
\* Properties of returned results (specification SpecTiming)

\* the fields of a returned result, processing_time by its items
FieldsOf(h, r) ==
    [f \in DOMAIN r |-> IF f = "processing_time" THEN h[r[f]] ELSE r[f]]

\* C21: a result that process_file returned keeps every field, the items
\* of processing_time included, through every later process_file call on
\* the same processor, whether that call succeeds or fails.
C21_ReturnedResultNeverChanges ==
    [][\A i \in 1..Len(emitted) :
         /\ i <= Len(emitted')
         /\ FieldsOf(dicts', emitted'[i]) = FieldsOf(dicts, emitted[i])]_vars

\* a successful call was followed by a call that changed self.timing
C21_Witness ==
    /\ Len(emitted) >= 2
    /\ emitted[1].errors = None
    /\ dicts[1] # dicts[emitted[1].processing_time]

----------------------------------------------------------------------------
\* Properties of the step messages of process_file (specification Spec)

\* the steps whose message was emitted for the file at position f, in order
StepsOf(f) ==
    LET mine == SelectSeq(trace, LAMBDA e : e[1] = f)
    IN  [j \in 1..Len(mine) |-> mine[j][2]]

\* C23: the step messages of every process_file run are a prefix of the
\* fixed sequence of eight messages, each at most once, and "Processing
\* completed" is among them exactly when the returned result has no error.
C23_StepMessagesArePrefix ==
    /\ \A f \in 1..Len(files) :
         /\ Len(StepsOf(f)) <= Len(StepNames)
         /\ StepsOf(f) = SubSeq(StepNames, 1, Len(StepsOf(f)))
    /\ \A f \in 1..Len(results) :
         ("complete" \in Range(StepsOf(f))) <=> (results[f].errors = None)

----------------------------------------------------------------------------
\* Properties of the table of get_activities (specification Spec)

RECURSIVE ResultsWithoutException(_)
\* the results of the first n files whose processing raised no exception
ResultsWithoutException(n) ==
    IF n = 0 THEN <<>>
    ELSE IF excs[n] = None
      THEN Append(ResultsWithoutException(n - 1), results[n])
      ELSE ResultsWithoutException(n - 1)

\* C24: the table get_activities returns has one row for every file whose
\* processing raised no exception, in input order, and no row for a file
\* whose processing failed, so no row holds the sentinel values of a
\* failed file.
C24_TableHasTheSuccessfulFiles ==
    (pc = "returned" /\ ~table.raised) =>
      /\ table.rows = ResultsWithoutException(Len(results))
      /\ \A j \in 1..Len(table.rows) :
           /\ table.rows[j].errors = None
           /\ table.rows[j].halpha # Sentinel

----------------------------------------------------------------------------
\* Properties of the template of ccf (specification SpecCcf)

\* the rows of the mask file that lie strictly inside the observed span
InsideSpan ==
    { l \in Range(clines) :
        l.lines1 > cwave[1] /\ l.lines2 < cwave[Len(cwave)] }

\* the positions of wtem that belong to the low and to the high padding
PaddingPoints ==
    { j \in 1..Len(wtem) :
        j <= Len(template_grid(cwave).x1)
          \/ j > Len(template_grid(cwave).x1) + Len(cwave) }

\* C26: the template handed to the cross-correlation uses only the mask
\* lines strictly inside the observed span: its value at a grid point is
\* the weight of such a line whose interval holds the point, and 0 when
\* there is none, so it is 0 on both paddings.
C26_TemplateUsesLinesInsideSpan ==
    cpc \in {"correlate", "done"} =>
      /\ Range(lines_new) = InsideSpan
      /\ \A j \in 1..Len(wtem) :
           LET holding == { l \in InsideSpan :
                              l.lines1 <= wtem[j] /\ wtem[j] <= l.lines2 }
           IN  IF holding = {}
                 THEN ftem[j] = 0
                 ELSE \E l \in holding : ftem[j] = l.flux_l
      /\ \A j \in PaddingPoints : ftem[j] = 0

\* a line inside the span was laid on the template while another row of
\* the mask, holding a point of a padding, was left out
C26_Witness ==
    /\ cpc = "done"
    /\ \E j \in 1..Len(wtem) : ftem[j] # 0
    /\ \E l \in Range(clines) \ InsideSpan : \E j \in PaddingPoints :
         l.lines1 <= wtem[j] /\ wtem[j] <= l.lines2

\* C29: the template wavelength grid (low padding, observed wavelengths,
\* high padding) is strictly increasing for every strictly increasing
\* observed array: no wavelength occurs twice.
C29_TemplateGridStrictlyIncreasing ==
    cpc \in {"mask", "lines", "correlate", "done"} =>
      StrictlyIncreasing(wtem)

\* the files _convert_to_legacy_format includes, and those of them that
\* carry a FWHM value
IncludedRows == SelectSeq(results, LAMBDA r : ~Truthy(r.errors))
FwhmColumn == SelectSeq(IncludedRows, LAMBDA r : r.fwhm # None)

\* C27: get_activities returns a table whatever the outcomes of the files:
\* the columns that are stacked have one entry per included file, also
\* when some included files carry a FWHM value and others do not.
C27_ColumnsHaveEqualLength ==
    pc = "returned" =>
      /\ ~table.raised
      /\ Len(FwhmColumn) > 0 => Len(FwhmColumn) = Len(IncludedRows)

----------------------------------------------------------------------------
\* Properties of the FITS file handle (specification Spec)

\* C28: when process_file has returned for a file, successfully or with an
\* error from any step, the HDU list the load step opened for that file is
\* closed.
C28_HandleClosedOnReturn ==
    \A f \in 1..Len(results) : f \notin hdulOpen

----------------------------------------------------------------------------
\* Properties of spectra with a single order (specifications Spec,
\* SpecRest and SpecMerge)

\* the last result is an error result without index values
LastIsErrorResult(rs) ==
    LET r == rs[Len(rs)]
    IN  /\ r.errors # None
        /\ r.s_index = Sentinel /\ r.halpha = Sentinel
        /\ r.hei = Sentinel /\ r.nai_d1d2 = Sentinel

\* C30: a spectrum with exactly one order is not processed: correct_to_rest
\* collects no cross-correlation function and raises, merge_echelle walks
\* no pair and raises, and the rest-frame step of process_file ends the
\* file with an error result that holds no index value.
C30_SingleOrderIsAnError ==
    /\ []((rpc \in {"done", "raised"} /\ RestN = 1)
            => (rpc = "raised" /\ ccf_arr = <<>>))
    /\ []((mpc \in {"done", "raised"} /\ Len(mdata) = 1)
            => (mpc = "raised" /\ cross = <<>> /\ waves = <<>>))
    /\ [][(pc = "rest" /\ hdr.norders = 1)
            => /\ results' # results
               /\ Len(results') = Len(results) + 1
               /\ results'[Len(results')].filename = files[fi]
               /\ LastIsErrorResult(results')]_vars

\* process_file returned the error of correct_to_rest on a single order
C30_Witness ==
    /\ Len(results) >= 1
    /\ results[1].errors
         = Some("local variable 'rv_arr' referenced before assignment")
    /\ trace[Len(SelectSeq(trace, LAMBDA e : e[1] = 1))] = <<1, "rest">>

====
